---- MODULE Spec2Model ----
(***************************************************************************)
(* EasyHire (Zeil-plus-): the upload-and-score ingestion pipeline          *)
(* (app/api/upload/route.ts), the aggregation pipeline                     *)
(* (app/api/scores/route.ts), the Submission Store                         *)
(* (app/api/submissions/route.ts), the dashboard (app/cv-score/page.js),   *)
(* the upload form (app/page.js) and the audio test (app/tts/page.js) as   *)
(* state machines.                                                         *)
(*                                                                         *)
(* Strings are sequences of one-character strings, so that toLowerCase,    *)
(* path.extname, path.basename and the sanitizing replace are computed as  *)
(* the code computes them.  Dates are epoch milliseconds.  Scores are      *)
(* fixed-point numbers counted in hundredths.                              *)
(***************************************************************************)
EXTENDS Integers, Sequences, FiniteSets, TLC

VARIABLES
    pc,         \* upload: position of each request handler
    input,      \* upload: the form-data "file" entry of each request
    unique,     \* upload: the generated file name of each request
    scorerOut,  \* upload: what the scorer process produced for each request
    resp,       \* upload: the response of each request
    uploadDir,  \* upload: names of the files in pdf_collection/
    written,    \* upload: history of fs.writeFile calls that succeeded
    invoked,    \* upload: history of execFile calls
    scoresTxt,  \* upload: the lines of pdf_collection/scores.txt
    loggedBy,   \* upload: the request that appended each line of scores.txt
    clock,      \* upload: Date.now()
    subStore,   \* globalThis._SUBMISSIONS
    summary,    \* scores: the body of the last GET /api/scores response
    summaryAt,  \* scores: new Date() while that GET ran
    legacy,     \* scores: the normalized log rows of that GET
    subBody,    \* submissions: the body of the last request to /api/submissions
    subResp,    \* submissions: the response to that request
    data,       \* dashboard: the items useSWR fetched from /api/scores
    search,     \* dashboard: the text of the search input
    page,       \* dashboard: the current page number
    sortBy,     \* dashboard: "score", "date" or "null"
    sortDir,    \* dashboard: "asc" or "desc"
    formVariant,        \* form: "page" (app/page.js) or "part_000"
    OVERRIDE_PATH,      \* form: NEXT_PUBLIC_CV_SCORE_PATH, "" when unset
    formFile,           \* form: whether the file state holds a file
    submitting,         \* form: the submitting flag
    fpc,                \* form: position of the handleSubmit call
    sent,               \* form: URLs this call has posted the form to
    answers,            \* form: how each of them ended: "ok", "notOk", "rejected"
    last,               \* form: last of postCvScore
    ret,                \* form: what postCvScore returned to this call
    formResult,         \* form: the result state
    usedEndpoint,       \* form: the usedEndpoint state
    packagedSubmission, \* form: the call whose submission it holds, 0 for null
    localSubs,          \* form: easyhire_submissions in localStorage, by call
    subPosts,           \* form: requests sent to /api/submissions, by call
    submits,            \* form: number of handleSubmit calls so far
    audioVariant,       \* audio: "page", "tts" or "part_004"
    hasPrompt,          \* audio: whether test has a prompt_id
    audioStatus,        \* audio: the status state
    audioResult,        \* audio: the result state: "null", "data" or "error"
    attemptUsed,        \* audio: the attemptUsed state (page.js only)
    rec,                \* audio: the recorder the rec state holds, 0 for null
    phase,              \* audio: where each recorder is
    recStarts,          \* audio: history of mr.start() calls
    scoreReqs,          \* audio: history of requests sent to /score
    clicks              \* audio: number of recorders asked for so far

uploadVars == <<pc, input, unique, scorerOut, resp, uploadDir, written, invoked,
                scoresTxt, loggedBy, clock>>

aggVars == <<subStore, summary, summaryAt, legacy>>

subsVars == <<subBody, subResp>>

dashVars == <<data, search, page, sortBy, sortDir>>

formVars == <<formVariant, OVERRIDE_PATH, formFile, submitting, fpc, sent,
              answers, last, ret, formResult, usedEndpoint, packagedSubmission,
              localSubs, subPosts, submits>>

audioVars == <<audioVariant, hasPrompt, audioStatus, audioResult, attemptUsed,
               rec, phase, recStarts, scoreReqs, clicks>>

clientVars == <<formVars, audioVars>>

vars == <<uploadVars, aggVars, subsVars, dashVars, clientVars>>

(***************************************************************************)
(* Bounds                                                                  *)
(***************************************************************************)
NumReqs == 2
MaxClock == 1
NumRand == 2
MaxStore == 3
MaxLines == 3
NumItems == 52
MaxSubmits == 2
MaxRec == 2

(***************************************************************************)
(* Strings                                                                 *)
(***************************************************************************)
Str_pdf == <<".", "p", "d", "f">>
Str_doc == <<".", "d", "o", "c">>
Str_docx == <<".", "d", "o", "c", "x">>
Str_upload == <<"u", "p", "l", "o", "a", "d">>

UpperToLower ==
    [c \in {"A", "B", "C", "D", "F", "N", "O", "P", "T", "X"} |->
        CASE c = "A" -> "a" [] c = "B" -> "b" [] c = "C" -> "c" [] c = "D" -> "d"
          [] c = "F" -> "f" [] c = "N" -> "n" [] c = "O" -> "o" [] c = "P" -> "p"
          [] c = "T" -> "t" [] c = "X" -> "x"]

\* String.prototype.toLowerCase
toLowerCase(s) ==
    [i \in 1..Len(s) |-> IF s[i] \in DOMAIN UpperToLower THEN UpperToLower[s[i]] ELSE s[i]]

\* the characters \w matches, among those the model's strings use
WordChars ==
    {"a", "b", "c", "d", "e", "f", "l", "n", "o", "p", "t", "u", "x", "y",
     "A", "B", "C", "D", "F", "N", "O", "P", "T", "X", "_",
     "0", "1", "2", "3", "4", "5", "6", "7", "8", "9"}

LastDot(s) ==
    IF \E i \in 1..Len(s) : s[i] = "."
    THEN CHOOSE i \in 1..Len(s) : s[i] = "." /\ \A j \in (i+1)..Len(s) : s[j] # "."
    ELSE 0

\* path.extname of a name without directory part: from the last dot on, and
\* "" when there is no dot or the only dot starts the name
extname(name) ==
    LET i == LastDot(name)
    IN  IF i <= 1 THEN <<>> ELSE SubSeq(name, i, Len(name))

EndsWith(s, suffix) ==
    /\ Len(suffix) <= Len(s)
    /\ SubSeq(s, Len(s) - Len(suffix) + 1, Len(s)) = suffix

\* path.basename(name, ext): the suffix is removed when name ends with it
\* (compared case-sensitively) and is not the whole name
basename(name, ext) ==
    IF ext # <<>> /\ name # ext /\ EndsWith(name, ext)
    THEN SubSeq(name, 1, Len(name) - Len(ext))
    ELSE name

RECURSIVE ReplaceRuns(_, _)
\* s.replace(/[^\w.-]+/g, "_"): every maximal run of characters other than
\* word characters, "." and "-" becomes one "_"; inRun: the previous
\* character belonged to such a run
ReplaceRuns(s, inRun) ==
    IF s = <<>> THEN <<>>
    ELSE IF Head(s) \in WordChars \cup {".", "-"}
         THEN <<Head(s)>> \o ReplaceRuns(Tail(s), FALSE)
         ELSE IF inRun THEN ReplaceRuns(Tail(s), TRUE)
              ELSE <<"_">> \o ReplaceRuns(Tail(s), TRUE)

sanitize(s) == ReplaceRuns(s, FALSE)

Digits == <<"0", "1", "2", "3", "4", "5", "6", "7", "8", "9">>

HexDigits == Digits \o <<"a", "b", "c", "d", "e", "f">>

RECURSIVE DecStr(_)
\* the decimal digits of a number n >= 0, as template literals print it
DecStr(n) ==
    IF n < 10 THEN <<Digits[n + 1]>>
    ELSE DecStr(n \div 10) \o <<Digits[(n % 10) + 1]>>

(***************************************************************************)
(* JavaScript values: t is the type tag, v the number a "num" holds or a   *)
(* "numstr" (a numeric string) parses to                                   *)
(***************************************************************************)
Undefined == [t |-> "undef", v |-> 0]
Null == [t |-> "null", v |-> 0]
Num(n) == [t |-> "num", v |-> n]

\* a ?? b
Nullish(a, b) == IF a.t \in {"undef", "null"} THEN b ELSE a

(***************************************************************************)
(* POST /api/upload                                                        *)
(***************************************************************************)
Reqs == 1..NumReqs

ALLOWED_MIME ==
    {"application/pdf", "application/msword",
     "application/vnd.openxmlformats-officedocument.wordprocessingml.document"}

ALLOWED_EXT == {Str_pdf, Str_doc, Str_docx}

MAX_BYTES == 20 * 1024 * 1024

\* form.get("file") when the form has no file entry
NoFile == [present |-> FALSE, name |-> <<>>, type |-> "", size |-> 0]

FileNames ==
    { <<"a", ".", "p", "d", "f">>,
      <<"a", ".", "P", "D", "F">>,
      <<"n", " ", "o", ".", "t", "x", "t">>,
      <<>> }

FileTypes == {"application/pdf", "text/plain"}

FileSizes == {MAX_BYTES, MAX_BYTES + 1}

Files == [present : {TRUE}, name : FileNames, type : FileTypes, size : FileSizes]

\* const name = file.name || "upload"
NameOf(file) == IF file.name = <<>> THEN Str_upload ELSE file.name

ExtOf(file) == toLowerCase(extname(NameOf(file)))

\* as typeOk, demanding extension and MIME type together
typeOk_both(file) == file.type \in ALLOWED_MIME /\ ExtOf(file) \in ALLOWED_EXT

typeOk(file) == file.type \in ALLOWED_MIME \/ ExtOf(file) \in ALLOWED_EXT

\* as ValidationStatus, without the size check
ValidationStatus_nosize(file) ==
    IF ~file.present THEN 400
    ELSE IF ~typeOk(file) THEN 400
    ELSE 0

\* the status the validation of lines 25-35 answers with, 0 when it passes
ValidationStatus(file) ==
    IF ~file.present THEN 400
    ELSE IF ~typeOk(file) THEN 400
    ELSE IF file.size > MAX_BYTES THEN 413
    ELSE 0

\* crypto.randomUUID().slice(0, 8): eight hexadecimal digits; the model draws
\* them from the NumRand strings made of one repeated digit
RandomPrefix(rand) == [i \in 1..8 |-> HexDigits[rand]]

\* `${safeBase}_${Date.now()}_${crypto.randomUUID().slice(0, 8)}${ext}`
UniqueName(file, now, rand) ==
    sanitize(basename(NameOf(file), ExtOf(file)))
        \o <<"_">> \o DecStr(now) \o <<"_">> \o RandomPrefix(rand) \o ExtOf(file)

NoName == <<>>

\* what the scorer process does: exit "fail" is a spawn error or a non-zero
\* exit; last is the last line of stdout: "garbage" does not parse, "json"
\* parses to an object whose final_score is given (an empty stdout parses
\* as {}, an object without final_score)
ScorerResults ==
    { [exit |-> "fail", last |-> "garbage", final_score |-> Undefined],
      [exit |-> "ok", last |-> "garbage", final_score |-> Undefined],
      [exit |-> "ok", last |-> "json", final_score |-> Undefined],
      [exit |-> "ok", last |-> "json", final_score |-> Num(7300)] }

NoResult == [exit |-> "none", last |-> "garbage", final_score |-> Undefined]

ScorerThrows(out) == out.exit # "ok" \/ out.last # "json"

\* resultObj after the try/catch of lines 66-79
ResultObj(out) ==
    IF ScorerThrows(out) THEN [isNull |-> TRUE]
    ELSE [final_score |-> out.final_score]

\* as ScoreOf, with 0 for the score of a failed run
ScoreOf_zero(out) ==
    IF ScorerThrows(out) THEN Num(0) ELSE Nullish(out.final_score, Null)

\* score = resultObj?.final_score ?? null
ScoreOf(out) ==
    IF ScorerThrows(out) THEN Null ELSE Nullish(out.final_score, Null)

NoResp == [status |-> 0, ok |-> FALSE, filename |-> NoName, score |-> Null]

ErrorResp(status) == [status |-> status, ok |-> FALSE, filename |-> NoName, score |-> Null]

OkResp(name, score) == [status |-> 200, ok |-> TRUE, filename |-> name, score |-> score]

\* as LogLine, logging the scorer's field instead of the handler's score
LogLine_raw(name, out, now) ==
    [file |-> name, score |-> out.final_score, meta |-> ResultObj(out), ts |-> now]

LogLine(name, out, now) ==
    [file |-> name, score |-> ScoreOf(out), meta |-> ResultObj(out), ts |-> now]

UploadInit ==
    /\ pc = [r \in Reqs |-> "idle"]
    /\ input = [r \in Reqs |-> NoFile]
    /\ unique = [r \in Reqs |-> NoName]
    /\ scorerOut = [r \in Reqs |-> NoResult]
    /\ resp = [r \in Reqs |-> NoResp]
    /\ uploadDir = {}
    /\ written = <<>>
    /\ invoked = <<>>
    /\ scoresTxt = <<>>
    /\ loggedBy = <<>>
    /\ clock = 0

\* lines 23-35: the form is read and the file validated
Validate(r) ==
    /\ pc[r] = "idle"
    /\ \E file \in Files \cup {NoFile} :
         /\ input' = [input EXCEPT ![r] = file]
         /\ IF ValidationStatus(file) # 0
            THEN /\ resp' = [resp EXCEPT ![r] = ErrorResp(ValidationStatus(file))]
                 /\ pc' = [pc EXCEPT ![r] = "done"]
            ELSE /\ resp' = resp
                 /\ pc' = [pc EXCEPT ![r] = "save"]
    /\ UNCHANGED <<unique, scorerOut, uploadDir, written, invoked, scoresTxt,
                   loggedBy, clock, aggVars, subsVars, dashVars, clientVars>>

\* lines 38-45: the name is generated and the file written
SaveOk(r) ==
    /\ pc[r] = "save"
    /\ \E rand \in 1..NumRand :
         LET name == UniqueName(input[r], clock, rand)
         IN  /\ unique' = [unique EXCEPT ![r] = name]
             /\ uploadDir' = uploadDir \cup {name}
             /\ written' = Append(written, [req |-> r, name |-> name])
    /\ pc' = [pc EXCEPT ![r] = "invoke"]
    /\ UNCHANGED <<input, scorerOut, resp, invoked, scoresTxt, loggedBy, clock,
                   aggVars, subsVars, dashVars, clientVars>>

\* as SaveFails, with the error swallowed and the request going on
SaveFails_swallowed(r) ==
    /\ pc[r] = "save"
    /\ unique' = [unique EXCEPT ![r] = UniqueName(input[r], clock, 1)]
    /\ pc' = [pc EXCEPT ![r] = "invoke"]
    /\ UNCHANGED <<input, scorerOut, resp, uploadDir, written, invoked,
                   scoresTxt, loggedBy, clock, aggVars, subsVars, dashVars, clientVars>>

\* lines 38-45 and 100-102: arrayBuffer, mkdir or writeFile throws
SaveFails(r) ==
    /\ pc[r] = "save"
    /\ resp' = [resp EXCEPT ![r] = ErrorResp(500)]
    /\ pc' = [pc EXCEPT ![r] = "done"]
    /\ UNCHANGED <<input, unique, scorerOut, uploadDir, written, invoked,
                   scoresTxt, loggedBy, clock, aggVars, subsVars, dashVars, clientVars>>

\* as InvokeScorer, with the scorer process started and not awaited
InvokeScorer_detached(r) ==
    /\ pc[r] = "invoke"
    /\ invoked' = Append(invoked, r)
    /\ pc' = [pc EXCEPT ![r] = "append"]
    /\ UNCHANGED <<input, unique, scorerOut, resp, uploadDir, written,
                   scoresTxt, loggedBy, clock, aggVars, subsVars, dashVars, clientVars>>

\* line 69: the scorer process is started
InvokeScorer(r) ==
    /\ pc[r] = "invoke"
    /\ invoked' = Append(invoked, r)
    /\ pc' = [pc EXCEPT ![r] = "await"]
    /\ UNCHANGED <<input, unique, scorerOut, resp, uploadDir, written,
                   scoresTxt, loggedBy, clock, aggVars, subsVars, dashVars, clientVars>>

\* as ScorerDone, for a scorer process that never exits
ScorerDone_hung(r) ==
    /\ pc[r] = "await"
    /\ UNCHANGED vars

\* lines 69-79: the scorer process ends; its output is parsed
ScorerDone(r) ==
    /\ pc[r] = "await"
    /\ \E out \in ScorerResults : scorerOut' = [scorerOut EXCEPT ![r] = out]
    /\ pc' = [pc EXCEPT ![r] = "append"]
    /\ UNCHANGED <<input, unique, resp, uploadDir, written, invoked,
                   scoresTxt, loggedBy, clock, aggVars, subsVars, dashVars, clientVars>>

\* as AppendOk, with fs.writeFile in the place of fs.appendFile
AppendOk_overwrite(r) ==
    /\ pc[r] = "append"
    /\ scoresTxt' = <<LogLine(unique[r], scorerOut[r], clock)>>
    /\ loggedBy' = <<r>>
    /\ resp' = [resp EXCEPT ![r] = OkResp(unique[r], ScoreOf(scorerOut[r]))]
    /\ pc' = [pc EXCEPT ![r] = "done"]
    /\ UNCHANGED <<input, unique, scorerOut, uploadDir, written, invoked, clock,
                   aggVars, subsVars, dashVars, clientVars>>

\* lines 83-99: the line is appended to scores.txt and the request answered
AppendOk(r) ==
    /\ pc[r] = "append"
    /\ scoresTxt' = Append(scoresTxt, LogLine(unique[r], scorerOut[r], clock))
    /\ loggedBy' = Append(loggedBy, r)
    /\ resp' = [resp EXCEPT ![r] = OkResp(unique[r], ScoreOf(scorerOut[r]))]
    /\ pc' = [pc EXCEPT ![r] = "done"]
    /\ UNCHANGED <<input, unique, scorerOut, uploadDir, written, invoked, clock,
                   aggVars, subsVars, dashVars, clientVars>>

\* lines 91 and 100-102: appendFile throws
AppendFails(r) ==
    /\ pc[r] = "append"
    /\ resp' = [resp EXCEPT ![r] = ErrorResp(500)]
    /\ pc' = [pc EXCEPT ![r] = "done"]
    /\ UNCHANGED <<input, unique, scorerOut, uploadDir, written, invoked,
                   scoresTxt, loggedBy, clock, aggVars, subsVars, dashVars, clientVars>>

\* time passes
Tick ==
    /\ clock < MaxClock
    /\ clock' = clock + 1
    /\ UNCHANGED <<pc, input, unique, scorerOut, resp, uploadDir, written,
                   invoked, scoresTxt, loggedBy, aggVars, subsVars, dashVars, clientVars>>

(***************************************************************************)
(* GET /api/scores                                                         *)
(*                                                                         *)
(* A parsed JSON object is a record; a key the object lacks is not in its  *)
(* DOMAIN.  Numbers and null are the tagged values above, strings are      *)
(* character sequences.  A date is the epoch milliseconds its ISO string   *)
(* denotes; the date strings of the inputs are valid ISO strings.          *)
(***************************************************************************)
Str_Unknown == <<"U", "n", "k", "n", "o", "w", "n">>
Str_unknown == <<"u", "n", "k", "n", "o", "w", "n">>

\* obj?.key
Get(obj, key) == IF key \in DOMAIN obj THEN obj[key] ELSE Undefined

\* Number(c) with Number.isFinite: undefined and non-numeric strings give NaN,
\* null gives 0
ToNumber(c) ==
    CASE c.t = "num" -> [finite |-> TRUE, v |-> c.v]
      [] c.t = "null" -> [finite |-> TRUE, v |-> 0]
      [] OTHER -> [finite |-> FALSE, v |-> 0]

Candidates == <<"score", "overall", "final", "total">>

RECURSIVE FirstFinite(_, _)
FirstFinite(obj, keys) ==
    IF keys = <<>> THEN 0
    ELSE IF ToNumber(Get(obj, Head(keys))).finite
         THEN ToNumber(Get(obj, Head(keys))).v
         ELSE FirstFinite(obj, Tail(keys))

extractScoreLike(obj) == FirstFinite(obj, Candidates)

\* a || b || ... on strings: the first non-empty one, else the last
RECURSIVE FirstTruthy(_)
FirstTruthy(strs) ==
    IF Len(strs) = 1 \/ Head(strs) # <<>> THEN Head(strs) ELSE FirstTruthy(Tail(strs))

\* row?.k1 ?? row?.k2 ?? ... ?? dflt on string keys: the first key present
RECURSIVE FirstPresent(_, _, _)
FirstPresent(row, keys, dflt) ==
    IF keys = <<>> THEN dflt
    ELSE IF Head(keys) \in DOMAIN row THEN row[Head(keys)]
         ELSE FirstPresent(row, Tail(keys), dflt)

\* a submission as POST /api/submissions stores it: name and email are "" and
\* fileName is "" (for null) when the body lacks them
EmptyObj == <<>>

\* scoring ?? {}
OrEmpty(scoring) == IF "isNull" \in DOMAIN scoring THEN EmptyObj ELSE scoring

normalizeFromSubmission(sub) ==
    [ name |-> FirstTruthy(<<sub.name, sub.email, sub.fileName, Str_Unknown>>),
      score |-> extractScoreLike(OrEmpty(sub.scoring)),
      date |-> sub.submittedAt,
      fileName |-> sub.fileName,
      email |-> sub.email,
      scoring |-> sub.scoring,
      source |-> "packaged" ]

\* scores.ts readScores: JSON.parse of every line, which throws on the
\* first malformed one
readScoresThrows(lines) == \E i \in 1..Len(lines) : "bad" \in DOMAIN lines[i]

\* tryReadLegacyFromFile: the lines that parse, in order
RECURSIVE ParsedLines(_)
ParsedLines(lines) ==
    IF lines = <<>> THEN <<>>
    ELSE IF "bad" \in DOMAIN Head(lines) THEN ParsedLines(Tail(lines))
         ELSE <<Head(lines)>> \o ParsedLines(Tail(lines))

\* GET without the fallback reader: no rows when readScores throws
legacyRows_nofallback(lines) == IF readScoresThrows(lines) THEN <<>> ELSE lines

\* GET, step 2: readScores when it does not throw, else the fallback reader
legacyRows(lines) == IF readScoresThrows(lines) THEN ParsedLines(lines) ELSE lines

normalizeFromLegacy(row, now) ==
    [ name |-> FirstPresent(row, <<"name", "candidate", "file", "fileName">>, Str_Unknown),
      score |-> extractScoreLike(row),
      date |-> IF "date" \in DOMAIN row THEN row.date
               ELSE IF "submittedAt" \in DOMAIN row THEN row.submittedAt
               ELSE now,
      fileName |-> FirstPresent(row, <<"fileName", "file">>, <<>>),
      email |-> FirstPresent(row, <<"email">>, <<>>),
      scoring |-> row,
      source |-> "legacy" ]

MinuteMs == 60000

\* keyOf in dedupePreferPackaged
WhoOf(r) == toLowerCase(FirstTruthy(<<r.email, r.name, r.fileName, Str_unknown>>))

MinuteOf(t) == t \div MinuteMs

keyOf(r) == <<WhoOf(r), MinuteOf(r.date)>>

\* map.get(k): the place of key k among the keys of the Map, 0 when absent
IndexOfKey(keys, k) ==
    IF \E i \in 1..Len(keys) : keys[i] = k
    THEN CHOOSE i \in 1..Len(keys) : keys[i] = k
    ELSE 0

RECURSIVE DedupeInto(_, _, _)
\* the Map of dedupePreferPackaged as the sequences of its keys and of its
\* values: a new key is added at the end, a replaced value keeps its place
DedupeInto(keys, values, rows) ==
    IF rows = <<>> THEN values
    ELSE LET r == Head(rows)
             k == keyOf(r)
             i == IndexOfKey(keys, k)
         IN  IF i = 0 THEN DedupeInto(Append(keys, k), Append(values, r), Tail(rows))
             ELSE IF values[i].source = "legacy" /\ r.source = "packaged"
                  THEN DedupeInto(keys, [values EXCEPT ![i] = r], Tail(rows))
                  ELSE DedupeInto(keys, values, Tail(rows))

\* as dedupePreferPackaged, with every row kept
dedupePreferPackaged_all(rows) == rows

dedupePreferPackaged(rows) == DedupeInto(<<>>, <<>>, rows)

\* p goes behind every pair whose key is not below its own (the sort is
\* stable); a pair is <<key, element>>
RECURSIVE InsertDesc(_, _)
InsertDesc(p, sorted) ==
    IF sorted = <<>> THEN <<p>>
    ELSE IF Head(sorted)[1] >= p[1]
         THEN <<Head(sorted)>> \o InsertDesc(p, Tail(sorted))
         ELSE <<p>> \o sorted

RECURSIVE SortPairsFrom(_, _)
SortPairsFrom(done, rest) ==
    IF rest = <<>> THEN done
    ELSE SortPairsFrom(InsertDesc(Head(rest), done), Tail(rest))

\* seq.sort((a, b) => key(b) - key(a)), keys being the key of each element
SortDesc(seq, keys) ==
    LET sorted == SortPairsFrom(<<>>, [i \in 1..Len(seq) |-> <<keys[i], seq[i]>>])
    IN  [i \in 1..Len(seq) |-> sorted[i][2]]

SortByDateDesc(seq) == SortDesc(seq, [i \in 1..Len(seq) |-> seq[i].date])

SortByScoreDesc(seq) == SortDesc(seq, [i \in 1..Len(seq) |-> seq[i].score])

RECURSIVE SumScores(_)
SumScores(seq) == IF seq = <<>> THEN 0 ELSE Head(seq).score + SumScores(Tail(seq))

\* Math.round(x) for x = num / den, den > 0: halves round up
RoundDiv(num, den) == (2 * num + den) \div (2 * den)

\* as averageOf, rounding to one decimal as summarize of lib/scores.ts does
averageOf_tenths(merged) ==
    IF Len(merged) = 0 THEN 0
    ELSE 10 * RoundDiv(SumScores(merged), 10 * Len(merged))

\* Math.round((sum / length) * 100) / 100, in hundredths
averageOf(merged) ==
    IF Len(merged) = 0 THEN 0 ELSE RoundDiv(SumScores(merged), Len(merged))

TopN == 5

Take(seq, n) == SubSeq(seq, 1, IF Len(seq) < n THEN Len(seq) ELSE n)

\* as top5Of, with the comparator's operands swapped (ascending scores)
top5Of_asc(merged) ==
    LET desc == SortByScoreDesc([i \in 1..Len(merged) |->
                                   [name |-> merged[i].name, score |-> merged[i].score]])
    IN  Take([i \in 1..Len(desc) |-> desc[Len(desc) + 1 - i]], TopN)

top5Of(merged) ==
    Take(SortByScoreDesc([i \in 1..Len(merged) |->
                             [name |-> merged[i].name, score |-> merged[i].score]]),
         TopN)

\* GET, step 2: the log rows, normalized
legacyOf(lines, now) ==
    LET rows == legacyRows(lines)
    IN  [i \in 1..Len(rows) |-> normalizeFromLegacy(rows[i], now)]

\* the rows GET merges: the submissions, then the log rows
MergedInput(store, lines, now) ==
    [i \in 1..Len(store) |-> normalizeFromSubmission(store[i])] \o legacyOf(lines, now)

mergedOf(store, lines, now) ==
    SortByDateDesc(dedupePreferPackaged(MergedInput(store, lines, now)))

computeSummary(store, lines, now) ==
    LET merged == mergedOf(store, lines, now)
    IN  [ totalCVs |-> Len(merged),
          averageScore |-> averageOf(merged),
          top5 |-> top5Of(merged),
          items |-> merged ]

NoSummary == [totalCVs |-> -1, averageScore |-> 0, top5 |-> <<>>, items |-> <<>>]

(***************************************************************************)
(* Inputs of the aggregation                                               *)
(***************************************************************************)
BoundedSeq(S, n) == UNION {[1..k -> S] : k \in 0..n}

File_a_pdf ==
    [present |-> TRUE, name |-> <<"a", ".", "p", "d", "f">>,
     type |-> "application/pdf", size |-> MAX_BYTES]

File_n_o_txt ==
    [present |-> TRUE, name |-> <<"n", " ", "o", ".", "t", "x", "t">>,
     type |-> "application/pdf", size |-> MAX_BYTES]

\* a line POST /api/upload wrote after a scorer run that gave final_score 73
Line_scored ==
    LogLine(UniqueName(File_a_pdf, 120000, 1),
            [exit |-> "ok", last |-> "json", final_score |-> Num(7300)], 120000)

\* a line POST /api/upload wrote after the scorer failed
Line_unscored ==
    LogLine(UniqueName(File_n_o_txt, 150000, 2),
            [exit |-> "fail", last |-> "garbage", final_score |-> Undefined], 150000)

\* a line of another writer, with the name and date keys normalizeFromLegacy reads
Line_dated == [name |-> <<"B", "O">>, date |-> 130000, total |-> Num(9125)]

\* a line that is not JSON
Line_bad == [bad |-> TRUE]

AggLines == {Line_scored, Line_unscored, Line_dated, Line_bad}

Sub_ann ==
    [id |-> "s1", submittedAt |-> 120000, fileName |-> <<"a", ".", "p", "d", "f">>,
     name |-> <<"A", "n", "n">>, email |-> <<>>, scoring |-> [score |-> Num(8000)]]

Sub_bo ==
    [id |-> "s2", submittedAt |-> 150000, fileName |-> <<>>,
     name |-> <<>>, email |-> <<"B", "o">>,
     scoring |-> [score |-> Null, overall |-> Num(7255)]]

Sub_file ==
    [id |-> "s3", submittedAt |-> 150000, fileName |-> UniqueName(File_a_pdf, 120000, 1),
     name |-> <<>>, email |-> <<>>, scoring |-> [isNull |-> TRUE]]

Sub_cy ==
    [id |-> "s4", submittedAt |-> 200000, fileName |-> <<>>,
     name |-> <<"C", "y">>, email |-> <<>>,
     scoring |-> [score |-> [t |-> "str", v |-> 0], total |-> Num(6100)]]

AggSubs == {Sub_ann, Sub_bo, Sub_file, Sub_cy}

AggTimes == {150000, 240000}

\* GET /api/scores; now is new Date() during the request
ScoresGET ==
    /\ \E now \in AggTimes :
         /\ summary' = computeSummary(subStore, scoresTxt, now)
         /\ summaryAt' = now
         /\ legacy' = legacyOf(scoresTxt, now)
    /\ UNCHANGED <<uploadVars, subStore, subsVars, dashVars, clientVars>>

(***************************************************************************)
(* GET and POST /api/submissions (app/api/submissions/route.ts)            *)
(*                                                                         *)
(* A request body is what req.json() makes of it: [bad |-> TRUE] when it   *)
(* is not JSON, [isNull |-> TRUE] for the JSON null, else an object with   *)
(* the keys it has.                                                        *)
(***************************************************************************)
Body_notJson == [bad |-> TRUE]

Body_null == [isNull |-> TRUE]

Body_noId == [name |-> <<"D", "e", "e">>, submittedAt |-> 150000]

Body_emptyId == [id |-> "", name |-> <<"D", "e", "e">>]

Body_ann ==
    [id |-> "s1", submittedAt |-> 120000, fileName |-> <<"a", ".", "p", "d", "f">>,
     name |-> <<"A", "n", "n">>, scoring |-> [score |-> Num(8000)]]

Body_bo ==
    [id |-> "s2", submittedAt |-> 150000, email |-> <<"B", "o">>,
     scoring |-> [score |-> Null, overall |-> Num(7255)]]

\* the id of Body_ann once more, with other fields
Body_again == [id |-> "s1", name |-> <<"C", "y">>]

SubBodies ==
    {Body_notJson, Body_null, Body_noId, Body_emptyId, Body_ann, Body_bo, Body_again}

\* no request yet, or a request without a body
NoBody == [none |-> TRUE]

\* body?.id is truthy
HasId(body) == "id" \in DOMAIN body /\ body.id # ""

\* the Submission POST builds from the body; now is new Date() of the request
SubmissionOf(body, now) ==
    [ id |-> body.id,
      submittedAt |-> IF "submittedAt" \in DOMAIN body THEN body.submittedAt ELSE now,
      fileName |-> FirstPresent(body, <<"fileName">>, <<>>),
      name |-> FirstPresent(body, <<"name">>, <<>>),
      email |-> FirstPresent(body, <<"email">>, <<>>),
      scoring |-> IF "scoring" \in DOMAIN body THEN body.scoring ELSE [isNull |-> TRUE] ]

NoSubResp == [method |-> "none", status |-> 0, success |-> FALSE, data |-> <<>>]

PostResp(status, success) ==
    [method |-> "POST", status |-> status, success |-> success, data |-> <<>>]

\* [...store].reverse()
Reverse(seq) == [i \in 1..Len(seq) |-> seq[Len(seq) + 1 - i]]

\* the store as it is, oldest first
ListOf_inOrder(store) == store

\* the data of GET
ListOf(store) == Reverse(store)

\* a GET that reverses the store itself: store.reverse()
SubmissionsGET_inPlace ==
    /\ subBody' = NoBody
    /\ subStore' = Reverse(subStore)
    /\ subResp' = [method |-> "GET", status |-> 200, success |-> TRUE,
                   data |-> Reverse(subStore)]
    /\ UNCHANGED <<uploadVars, summary, summaryAt, legacy, dashVars, clientVars>>

SubmissionsGET ==
    /\ subBody' = NoBody
    /\ subResp' = [method |-> "GET", status |-> 200, success |-> TRUE,
                   data |-> ListOf(subStore)]
    /\ UNCHANGED <<uploadVars, aggVars, dashVars, clientVars>>

SubmissionsPOST ==
    /\ \E body \in SubBodies, now \in AggTimes :
         /\ subBody' = body
         /\ IF "bad" \in DOMAIN body
            THEN \* req.json() throws
                 /\ subResp' = PostResp(500, FALSE)
                 /\ subStore' = subStore
            ELSE IF ~HasId(body)
            THEN /\ subResp' = PostResp(400, FALSE)
                 /\ subStore' = subStore
            ELSE /\ Len(subStore) < MaxStore
                 /\ subStore' = Append(subStore, SubmissionOf(body, now))
                 /\ subResp' = PostResp(200, TRUE)
    /\ UNCHANGED <<uploadVars, summary, summaryAt, legacy, dashVars, clientVars>>

SubsIdle ==
    /\ subBody = NoBody
    /\ subResp = NoSubResp

(***************************************************************************)
(* The dashboard (app/cv-score/page.js)                                    *)
(*                                                                         *)
(* data is the items of the /api/scores response once useSWR has it, and   *)
(* NoData before.  The state of the component is search, page, sortBy and  *)
(* sortDir; filteredCVs, totalPages and currentItems are computed from it  *)
(* at every render.                                                        *)
(***************************************************************************)
NoData == [loading |-> TRUE]

\* data?.items ?? []
itemsOf(d) == IF d = NoData THEN <<>> ELSE d

itemsPerPage == 25

\* String.prototype.includes
Includes(s, sub) ==
    \E off \in 0..(Len(s) - Len(sub)) : \A k \in 1..Len(sub) : s[off + k] = sub[k]

\* cv.name || ""
NameOrEmpty(cv) == IF "name" \in DOMAIN cv THEN cv.name ELSE <<>>

\* the filter without the two toLowerCase calls
Matches_caseSensitive(cv, s) == Includes(NameOrEmpty(cv), s)

\* the predicate of items.filter
Matches(cv, s) == Includes(toLowerCase(NameOrEmpty(cv)), toLowerCase(s))

\* String.prototype.localeCompare on strings of ASCII letters: the letters
\* decide, whatever their case; between strings of the same letters the
\* first difference in case does, lower case first
Alphabet == <<"a", "b", "n", "o">>

LetterRank(c) ==
    LET l == toLowerCase(<<c>>)[1]
    IN  CHOOSE i \in 1..Len(Alphabet) : Alphabet[i] = l

RECURSIVE PrimaryCompare(_, _)
PrimaryCompare(a, b) ==
    IF a = <<>> THEN (IF b = <<>> THEN 0 ELSE -1)
    ELSE IF b = <<>> THEN 1
    ELSE IF LetterRank(Head(a)) < LetterRank(Head(b)) THEN -1
    ELSE IF LetterRank(Head(a)) > LetterRank(Head(b)) THEN 1
    ELSE PrimaryCompare(Tail(a), Tail(b))

RECURSIVE CaseCompare(_, _)
CaseCompare(a, b) ==
    IF a = <<>> THEN 0
    ELSE IF Head(a) = Head(b) THEN CaseCompare(Tail(a), Tail(b))
    ELSE IF toLowerCase(<<Head(a)>>) = <<Head(a)>> THEN -1
    ELSE 1

localeCompare(a, b) ==
    IF PrimaryCompare(a, b) # 0 THEN PrimaryCompare(a, b) ELSE CaseCompare(a, b)

\* the place of the name of result[i] among the names of result
NameRank(result, i) ==
    Cardinality({j \in 1..Len(result) :
                    localeCompare(NameOrEmpty(result[j]), NameOrEmpty(result[i])) < 0})

\* Array.prototype.sort is stable: element i comes after the elements with a
\* smaller key and after the earlier elements with its own key
PlaceAsc(keys, i) ==
    Cardinality({j \in 1..Len(keys) :
                    keys[j] < keys[i] \/ (keys[j] = keys[i] /\ j < i)}) + 1

\* seq.sort((a, b) => key(a) - key(b))
SortAsc(seq, keys) ==
    LET place == [i \in 1..Len(seq) |-> PlaceAsc(keys, i)]
        from == [p \in 1..Len(seq) |-> CHOOSE i \in 1..Len(seq) : place[i] = p]
    IN  [p \in 1..Len(seq) |-> seq[from[p]]]

\* the ascending sort turned around, which turns the runs of equal keys around
SortDsc_reversed(seq, keys) == Reverse(SortAsc(seq, keys))

\* seq.sort((a, b) => key(b) - key(a))
SortDsc(seq, keys) == SortAsc(seq, [i \in 1..Len(seq) |-> 0 - keys[i]])

\* lines 146-168
filteredCVs(its, s, by, dir) ==
    LET result == SelectSeq(its, LAMBDA cv : Matches(cv, s))
        scores == [i \in 1..Len(result) |-> result[i].score]
        dates == [i \in 1..Len(result) |-> result[i].date]
    IN  IF by = "score"
        THEN IF dir = "asc" THEN SortAsc(result, scores) ELSE SortDsc(result, scores)
        ELSE IF by = "date"
        THEN IF dir = "asc" THEN SortAsc(result, dates) ELSE SortDsc(result, dates)
        ELSE SortAsc(result, [i \in 1..Len(result) |-> NameRank(result, i)])

\* Math.ceil(n / itemsPerPage) || 1
totalPagesOf(n) ==
    IF n = 0 THEN 1 ELSE (n + itemsPerPage - 1) \div itemsPerPage

\* seq.slice(from, to), from and to counted from 0
Slice(seq, from, to) ==
    LET hi == IF to < Len(seq) THEN to ELSE Len(seq)
    IN  IF from >= hi THEN <<>> ELSE SubSeq(seq, from + 1, hi)

\* what the component renders
FilteredNow == filteredCVs(itemsOf(data), search, sortBy, sortDir)

TotalPagesNow == totalPagesOf(Len(FilteredNow))

currentItemsOf(p) == Slice(FilteredNow, (p - 1) * itemsPerPage, p * itemsPerPage)

\* the responses of /api/scores the dashboard may get: item i of the longest
\* one has one of four names, or none when i is a multiple of 5
DashNames ==
    << <<"A", "n", "n">>, <<"b", "o">>, <<"B", "A", "N">>, <<"a", "n", "n", "a">> >>

ItemAt(i) ==
    IF i % 5 = 0
    THEN [id |-> i, score |-> ((i * 37) % 11) * 100, date |-> 120000 + ((i * 7) % 13) * 60000]
    ELSE [id |-> i, name |-> DashNames[(i % 4) + 1], score |-> ((i * 37) % 11) * 100,
          date |-> 120000 + ((i * 7) % 13) * 60000]

FetchedItems ==
    { <<>>, [i \in 1..4 |-> ItemAt(i)], [i \in 1..NumItems |-> ItemAt(i)] }

Searches ==
    { <<>>, <<"a">>, <<"A", "N">>, <<"n", "n">>, <<"B">>, <<"o", "o">> }

DashIdle ==
    /\ data = NoData
    /\ search = <<>>
    /\ page = 1
    /\ sortBy = "null"
    /\ sortDir = "desc"

\* the response of /api/scores arrives, once
Fetched ==
    /\ data = NoData
    /\ \E its \in FetchedItems : data' = its
    /\ UNCHANGED <<search, page, sortBy, sortDir, uploadVars, aggVars, subsVars, clientVars>>

\* lines 311-314: the search input changes
SearchEdit ==
    /\ \E s \in Searches : search' = s
    /\ page' = 1
    /\ UNCHANGED <<data, sortBy, sortDir, uploadVars, aggVars, subsVars, clientVars>>

Toggle(dir) == IF dir = "asc" THEN "desc" ELSE "asc"

\* lines 334-337: the button of the Score column
SortScoreClick ==
    /\ sortBy' = "score"
    /\ sortDir' = Toggle(sortDir)
    /\ UNCHANGED <<data, search, page, uploadVars, aggVars, subsVars, clientVars>>

\* lines 350-353: the button of the Date Uploaded column
SortDateClick ==
    /\ sortBy' = "date"
    /\ sortDir' = Toggle(sortDir)
    /\ UNCHANGED <<data, search, page, uploadVars, aggVars, subsVars, clientVars>>

\* as PreviousClick, without the floor of 1
PreviousClick_unclamped ==
    /\ page' = page - 1
    /\ UNCHANGED <<data, search, sortBy, sortDir, uploadVars, aggVars, subsVars, clientVars>>

\* lines 466-468: Previous, disabled on page 1
PreviousClick ==
    /\ page # 1
    /\ page' = IF page - 1 > 1 THEN page - 1 ELSE 1
    /\ UNCHANGED <<data, search, sortBy, sortDir, uploadVars, aggVars, subsVars, clientVars>>

\* lines 477-479: Next, disabled on the last page
NextClick ==
    /\ page # TotalPagesNow
    /\ page' = IF page + 1 < TotalPagesNow THEN page + 1 ELSE TotalPagesNow
    /\ UNCHANGED <<data, search, sortBy, sortDir, uploadVars, aggVars, subsVars, clientVars>>

(***************************************************************************)
(* The upload form (app/page.js, and its earlier version part_000)          *)
(*                                                                         *)
(* A response body is [t |-> "str", v |-> chars] when res.text() read it,  *)
(* [t |-> "obj", v |-> fields] when res.json() parsed an object, fields    *)
(* being the sequence of its [k |-> key, v |-> value] pairs in the order   *)
(* of the text, and [t |-> "bad"] when the body cannot be read.  A value   *)
(* is a "str", a "bool", a "num" (whole numbers, counted in hundredths as  *)
(* above) or the "arr" of the entries of a FastAPI detail list.            *)
(***************************************************************************)
JStr(chars) == [t |-> "str", v |-> chars]
JBool(b) == [t |-> "bool", v |-> b]
JObj(fields) == [t |-> "obj", v |-> fields]
JArr(items) == [t |-> "arr", v |-> items]

HasField(obj, key) == \E i \in 1..Len(obj.v) : obj.v[i].k = key

\* payload.key, undefined when payload is not an object or lacks the key
Field(payload, key) ==
    IF payload.t = "obj" /\ HasField(payload, key)
    THEN payload.v[CHOOSE i \in 1..Len(payload.v) : payload.v[i].k = key].v
    ELSE Undefined

RECURSIVE Join(_, _)
\* parts.join(sep)
Join(parts, sep) ==
    IF parts = <<>> THEN <<>>
    ELSE IF Len(parts) = 1 THEN parts[1]
    ELSE parts[1] \o sep \o Join(Tail(parts), sep)

Key_error == <<"e", "r", "r", "o", "r">>
Key_detail == <<"d", "e", "t", "a", "i", "l">>
Key_message == <<"m", "e", "s", "s", "a", "g", "e">>
Key_success == <<"s", "u", "c", "c", "e", "s", "s">>
Key_final_score == <<"f", "i", "n", "a", "l", "_", "s", "c", "o", "r", "e">>
Str_errorWord == <<"e", "r", "r", "o", "r">>
Str_true == <<"t", "r", "u", "e">>
Str_false == <<"f", "a", "l", "s", "e">>
Str_UnknownError ==
    <<"U", "n", "k", "n", "o", "w", "n", " ", "e", "r", "r", "o", "r">>
Str_NotFound == <<"N", "o", "t", " ", "F", "o", "u", "n", "d">>
Str_prompt_id == <<"p", "r", "o", "m", "p", "t", "_", "i", "d">>
Str_audio == <<"a", "u", "d", "i", "o">>
Str_started_ms == <<"s", "t", "a", "r", "t", "e", "d", "_", "m", "s">>
Str_ended_ms == <<"e", "n", "d", "e", "d", "_", "m", "s">>
Str_candidate == <<"c", "a", "n", "d", "i", "d", "a", "t", "e">>
Str_parseFailed ==
    <<"F", "a", "i", "l", "e", "d", " ", "t", "o", " ", "p", "a", "r", "s",
      "e", " ", "s", "e", "r", "v", "e", "r", " ", "r", "e", "s", "p", "o",
      "n", "s", "e">>
Str_NoText == <<"N", "o", " ", "t", "e", "x", "t">>
Str_body == <<"b", "o", "d", "y">>
Str_FieldRequired ==
    <<"F", "i", "e", "l", "d", " ", "r", "e", "q", "u", "i", "r", "e", "d">>
Str_InternalServerError ==
    <<"I", "n", "t", "e", "r", "n", "a", "l", " ", "S", "e", "r", "v", "e",
      "r", " ", "E", "r", "r", "o", "r">>
Str_Ann == <<"A", "n", "n">>
Url_cv_score == <<"/", "c", "v", "/", "s", "c", "o", "r", "e">>
Url_score == <<"/", "s", "c", "o", "r", "e">>
Url_api_cv_score ==
    <<"/", "a", "p", "i", "/", "c", "v", "/", "s", "c", "o", "r", "e">>
Url_api_score == <<"/", "a", "p", "i", "/", "s", "c", "o", "r", "e">>
Url_v1_cv_score ==
    <<"/", "v", "1", "/", "c", "v", "/", "s", "c", "o", "r", "e">>
Url_v1_score == <<"/", "v", "1", "/", "s", "c", "o", "r", "e">>
Url_submissions ==
    <<"/", "a", "p", "i", "/", "s", "u", "b", "m", "i", "s", "s", "i", "o",
      "n", "s">>
Path_none == <<>>
Path_score == <<"s", "c", "o", "r", "e">>

\* page.js:32-36: one entry of a detail list; loc is an array of strings
DetailPart(d) ==
    LET loc == Join(d.loc, <<".">>)
        basic == IF d.msg # <<>> THEN d.msg ELSE Str_errorWord
    IN  IF loc # <<>> THEN loc \o <<":", " ">> \o basic ELSE basic

\* JSON.stringify of a string, boolean or number value
StringifyValue(val) ==
    CASE val.t = "str" -> <<"\"">> \o val.v \o <<"\"">>
      [] val.t = "bool" -> IF val.v THEN Str_true ELSE Str_false
      [] val.t = "num" -> DecStr(val.v \div 100)

\* JSON.stringify of an object of such values
Stringify(obj) ==
    <<"{">>
    \o Join([i \in 1..Len(obj.v) |->
                <<"\"">> \o obj.v[i].k \o <<"\"", ":">> \o StringifyValue(obj.v[i].v)],
            <<",">>)
    \o <<"}">>

\* page.js:21-54; no payload of the model is itself an array (lines 40-47)
normalizeApiError(payload, fallback) ==
    IF payload.t = "str"
    THEN IF payload.v = <<>> THEN fallback ELSE payload.v
    ELSE IF Field(payload, Key_error).t = "str" THEN Field(payload, Key_error).v
    ELSE IF Field(payload, Key_detail).t = "str" THEN Field(payload, Key_detail).v
    ELSE IF Field(payload, Key_detail).t = "arr"
         THEN LET detail == Field(payload, Key_detail).v
              IN  Join([i \in 1..Len(detail) |-> DetailPart(detail[i])],
                       <<" ", "|", " ">>)
    ELSE IF Field(payload, Key_message).t = "str" THEN Field(payload, Key_message).v
    ELSE Stringify(payload)

\* the one-argument call: fallback = "Unknown error"
normalizeApiError1(payload) == normalizeApiError(payload, Str_UnknownError)

\* /prompt_id|audio|started_ms|ended_ms|candidate/
TTSWords == {Str_prompt_id, Str_audio, Str_started_ms, Str_ended_ms, Str_candidate}

\* page.js:56-59
looksLikeTTSValidation(msg) == \E w \in TTSWords : Includes(msg, w)

\* `HTTP ${res.status} ${res.statusText || ""}`.trim(), the status text empty
HttpFallback(status) == <<"H", "T", "T", "P", " ">> \o DecStr(status)

\* page.js:94-100: the body is read as JSON or as text
ParsedBody(body) ==
    IF body.t = "bad" THEN JObj(<<[k |-> Key_error, v |-> JStr(Str_parseFailed)]>>)
    ELSE body

\* typeof data?.success === "boolean" ? data.success : true
SuccessOf(payload) ==
    IF Field(payload, Key_success).t = "bool" THEN Field(payload, Key_success).v
    ELSE TRUE

\* what a server may answer
Ans_notFound ==
    [status |-> 404, body |-> JObj(<<[k |-> Key_detail, v |-> JStr(Str_NotFound)]>>)]

Ans_scored ==
    [status |-> 200,
     body |-> JObj(<<[k |-> Key_success, v |-> JBool(TRUE)],
                     [k |-> Key_final_score, v |-> Num(7300)]>>)]

Ans_refused ==
    [status |-> 200,
     body |-> JObj(<<[k |-> Key_success, v |-> JBool(FALSE)],
                     [k |-> Key_error, v |-> JStr(Str_NoText)]>>)]

Ans_tts ==
    [status |-> 422,
     body |-> JObj(<<[k |-> Key_detail,
                      v |-> JArr(<<[loc |-> <<Str_body, Str_audio>>,
                                    msg |-> Str_FieldRequired]>>)]>>)]

Ans_crash == [status |-> 500, body |-> JStr(Str_InternalServerError)]

Ans_empty == [status |-> 502, body |-> JStr(<<>>)]

Ans_named ==
    [status |-> 200,
     body |-> JObj(<<[k |-> Str_candidate, v |-> JStr(Str_Ann)],
                     [k |-> Key_final_score, v |-> Num(7300)]>>)]

Ans_garbled == [status |-> 200, body |-> [t |-> "bad"]]

Answers ==
    {Ans_notFound, Ans_scored, Ans_refused, Ans_tts, Ans_crash, Ans_empty,
     Ans_named, Ans_garbled}

\* res.ok
ResOk(status) == status >= 200 /\ status <= 299

\* page.js:66-68: the override path gets a leading slash when it lacks one
OverrideUrl(path) == IF path[1] = "/" THEN path ELSE <<"/">> \o path

\* page.js:63-77, the API_BASE prefix left out
candidateUrls(path) ==
    (IF path # <<>> THEN <<OverrideUrl(path)>> ELSE <<>>)
    \o <<Url_cv_score, Url_score, Url_api_cv_score, Url_api_score,
         Url_v1_cv_score, Url_v1_score>>

RECURSIVE FilterNew(_, _)
\* page.js:80-81: candidates.filter(u => !tried.has(u) && tried.add(u))
FilterNew(urls, tried) ==
    IF urls = <<>> THEN <<>>
    ELSE IF Head(urls) \in tried THEN FilterNew(Tail(urls), tried)
    ELSE <<Head(urls)>> \o FilterNew(Tail(urls), tried \cup {Head(urls)})

\* the URLs a call tries: unique of postCvScore, CV_SCORE_ENDPOINT of part_000
uniqueUrls ==
    IF formVariant = "page" THEN FilterNew(candidateUrls(OVERRIDE_PATH), {})
    ELSE <<Url_cv_score>>

NoLast == [url |-> <<>>, res |-> FALSE]
NoRet == [ok |-> FALSE, url |-> <<>>]
NoResultYet == [ok |-> FALSE, why |-> "null", endpoint |-> <<>>]
Failure(why, url) == [ok |-> FALSE, why |-> why, endpoint |-> url]
Success(url) == [ok |-> TRUE, why |-> "", endpoint |-> url]

\* the form before the first submit; page.js with no override path
FormIdleAs(variant, path) ==
    /\ formVariant = variant
    /\ OVERRIDE_PATH = path
    /\ formFile = FALSE
    /\ submitting = FALSE
    /\ fpc = "idle"
    /\ sent = <<>>
    /\ answers = <<>>
    /\ last = NoLast
    /\ ret = NoRet
    /\ formResult = NoResultYet
    /\ usedEndpoint = <<>>
    /\ packagedSubmission = 0
    /\ localSubs = <<>>
    /\ subPosts = <<>>
    /\ submits = 0

FormIdle == FormIdleAs("page", Path_none)

\* page.js:309: a file is chosen or the choice cleared
ChooseFile ==
    /\ formFile' = ~formFile
    /\ UNCHANGED <<formVariant, OVERRIDE_PATH, submitting, fpc, sent, answers,
                   last, ret, formResult, usedEndpoint, packagedSubmission,
                   localSubs, subPosts, submits>>
    /\ UNCHANGED <<uploadVars, aggVars, subsVars, dashVars, audioVars>>

\* page.js:160-171: handleSubmit with no file chosen
SubmitNoFile ==
    /\ fpc = "idle" /\ ~submitting /\ submits < MaxSubmits
    /\ ~formFile
    /\ submits' = submits + 1
    /\ formResult' = Failure("nofile", <<>>)
    /\ usedEndpoint' = <<>>
    /\ submitting' = FALSE
    /\ sent' = <<>> /\ answers' = <<>> /\ last' = NoLast /\ ret' = NoRet
    /\ UNCHANGED <<formVariant, OVERRIDE_PATH, formFile, fpc, packagedSubmission,
                   localSubs, subPosts>>
    /\ UNCHANGED <<uploadVars, aggVars, subsVars, dashVars, audioVars>>

\* page.js:160-188 and 62-92: handleSubmit with a file, up to the first fetch
SubmitStart ==
    /\ fpc = "idle" /\ ~submitting /\ submits < MaxSubmits
    /\ formFile
    /\ submits' = submits + 1
    /\ formResult' = NoResultYet
    /\ usedEndpoint' = <<>>
    /\ submitting' = TRUE
    /\ sent' = <<uniqueUrls[1]>> /\ answers' = <<>> /\ last' = NoLast /\ ret' = NoRet
    /\ fpc' = "probe"
    /\ UNCHANGED <<formVariant, OVERRIDE_PATH, formFile, packagedSubmission,
                   localSubs, subPosts>>
    /\ UNCHANGED <<uploadVars, aggVars, subsVars, dashVars, audioVars>>

\* as AfterReturn, with the submission stored and posted before r.ok and
\* data.success are looked at
AfterReturn_eager(rOk, rUrl, rData, stored) ==
    /\ ret' = [ok |-> rOk, url |-> rUrl]
    /\ usedEndpoint' = rUrl
    /\ localSubs' = IF stored THEN Append(localSubs, submits) ELSE localSubs
    /\ subPosts' = Append(subPosts, submits)
    /\ formResult' = IF ~rOk THEN Failure("upload", rUrl)
                     ELSE IF ~SuccessOf(rData) THEN Failure("success:false", rUrl)
                     ELSE Success(rUrl)
    /\ submitting' = submitting
    /\ fpc' = "package"

\* page.js:188-267: handleSubmit from the return of postCvScore to the fetch
\* of /api/submissions; stored tells whether the localStorage calls of lines
\* 237-254 went through
AfterReturn(rOk, rUrl, rData, stored) ==
    /\ ret' = [ok |-> rOk, url |-> rUrl]
    /\ usedEndpoint' = rUrl
    /\ IF ~rOk
       THEN /\ formResult' = Failure("upload", rUrl)
            /\ submitting' = FALSE
            /\ fpc' = "idle"
            /\ UNCHANGED <<localSubs, subPosts>>
       ELSE IF ~SuccessOf(rData)
       THEN /\ formResult' = Failure("success:false", rUrl)
            /\ submitting' = FALSE
            /\ fpc' = "idle"
            /\ UNCHANGED <<localSubs, subPosts>>
       ELSE /\ formResult' = Success(rUrl)
            /\ localSubs' = IF stored THEN Append(localSubs, submits) ELSE localSubs
            /\ subPosts' = Append(subPosts, submits)
            /\ submitting' = submitting
            /\ fpc' = "package"

\* page.js:86 and 128-133: the loop goes on to the next URL, or ends with
\* what last holds
NextCandidate(newLast, stored) ==
    /\ last' = newLast
    /\ IF Len(sent) < Len(uniqueUrls)
       THEN /\ sent' = Append(sent, uniqueUrls[Len(sent) + 1])
            /\ UNCHANGED <<ret, formResult, usedEndpoint, submitting, fpc, localSubs,
                           subPosts>>
       ELSE /\ sent' = sent
            /\ AfterReturn(FALSE,
                           IF newLast.res THEN newLast.url
                           ELSE uniqueUrls[Len(uniqueUrls)],
                           JStr(<<>>), stored)

\* page.js:87-121 (postCvScore) and part_000:104-146: the request to the
\* URL sent last is answered
Response ==
    /\ fpc = "probe"
    /\ \E ans \in Answers, stored \in BOOLEAN :
         LET url == sent[Len(sent)]
             parsed == ParsedBody(ans.body)
             msg == normalizeApiError(parsed, HttpFallback(ans.status))
         IN  /\ answers' = Append(answers, IF ResOk(ans.status) THEN "ok" ELSE "notOk")
             /\ IF formVariant = "page"
                THEN IF ans.status = 404 \/ normalizeApiError1(parsed) = Str_NotFound
                     THEN NextCandidate([url |-> url, res |-> TRUE], stored)
                     ELSE IF looksLikeTTSValidation(msg)
                     THEN NextCandidate([url |-> url, res |-> TRUE], stored)
                     ELSE /\ AfterReturn(ResOk(ans.status), url, parsed, stored)
                          /\ UNCHANGED <<sent, last>>
                ELSE /\ AfterReturn(ResOk(ans.status), <<>>, parsed, stored)
                     /\ UNCHANGED <<sent, last>>
    /\ UNCHANGED <<formVariant, OVERRIDE_PATH, formFile, packagedSubmission, submits>>
    /\ UNCHANGED <<uploadVars, aggVars, subsVars, dashVars, audioVars>>

\* page.js:122-125 (postCvScore) and part_000:217-223: fetch rejects
NetworkError ==
    /\ fpc = "probe"
    /\ answers' = Append(answers, "rejected")
    /\ IF formVariant = "page"
       THEN NextCandidate([url |-> sent[Len(sent)], res |-> FALSE], FALSE)
       ELSE /\ formResult' = Failure("thrown", <<>>)
            /\ submitting' = FALSE
            /\ fpc' = "idle"
            /\ UNCHANGED <<sent, last, ret, usedEndpoint, localSubs, subPosts>>
    /\ UNCHANGED <<formVariant, OVERRIDE_PATH, formFile, packagedSubmission, submits>>
    /\ UNCHANGED <<uploadVars, aggVars, subsVars, dashVars, audioVars>>

\* as Packaged, without the finally of lines 271-273
Packaged_noFinally ==
    /\ fpc = "package"
    /\ packagedSubmission' = submits
    /\ fpc' = "idle"
    /\ UNCHANGED <<formVariant, OVERRIDE_PATH, formFile, submitting, sent,
                   answers, last, ret, formResult, usedEndpoint, localSubs,
                   subPosts, submits>>
    /\ UNCHANGED <<uploadVars, aggVars, subsVars, dashVars, audioVars>>

\* page.js:257-273: the request to /api/submissions is answered or fails
Packaged ==
    /\ fpc = "package"
    /\ packagedSubmission' = submits
    /\ submitting' = FALSE
    /\ fpc' = "idle"
    /\ UNCHANGED <<formVariant, OVERRIDE_PATH, formFile, sent, answers, last, ret,
                   formResult, usedEndpoint, localSubs, subPosts, submits>>
    /\ UNCHANGED <<uploadVars, aggVars, subsVars, dashVars, audioVars>>

(***************************************************************************)
(* The audio test (AudioTest of app/page.js, app/tts/page.js and its       *)
(* earlier version part_004)                                               *)
(*                                                                         *)
(* Every call of start() that reaches getUserMedia makes one recorder,     *)
(* numbered in the order of the calls.  phase[k] is where recorder k is:   *)
(* "none" before the call, "asking" while getUserMedia is pending,         *)
(* "started" after mr.start() with the start event pending, "live" after   *)
(* onstart ran, "stoppedEarly" and "stopped" after mr.stop() with the      *)
(* start event or only the stop event pending, "scoring" while the score   *)
(* request is in flight, "done" after onstop ended, "denied" when          *)
(* getUserMedia rejected, "crashed" when onstop ended by an exception.     *)
(* The Start and Stop buttons exist once test is loaded.                   *)
(***************************************************************************)
Recs == 1..MaxRec

AudioVariants == {"page", "tts", "part_004"}

\* the test before the first click
AudioIdleAs(variant, prompt) ==
    /\ audioVariant = variant
    /\ hasPrompt = prompt
    /\ audioStatus = "idle"
    /\ audioResult = "null"
    /\ attemptUsed = FALSE
    /\ rec = 0
    /\ phase = [k \in Recs |-> "none"]
    /\ recStarts = <<>>
    /\ scoreReqs = <<>>
    /\ clicks = 0

AudioIdle == AudioIdleAs("page", TRUE)

\* the recorder's state is "recording"
Recording(k) == phase[k] \in {"started", "live"}

\* page.js:699-708 and 545-549, tts/page.js:139-143 and 30-33: the Start
\* button is shown and enabled, and start() runs up to getUserMedia
StartClick ==
    /\ audioStatus # "recording"
    /\ audioVariant = "page" => ~attemptUsed
    /\ clicks < MaxRec
    /\ clicks' = clicks + 1
    /\ audioResult' = "null"
    /\ phase' = [phase EXCEPT ![clicks + 1] = "asking"]
    /\ UNCHANGED <<audioVariant, hasPrompt, audioStatus, attemptUsed, rec,
                   recStarts, scoreReqs>>
    /\ UNCHANGED <<uploadVars, aggVars, subsVars, dashVars, formVars>>

\* page.js:549-603: getUserMedia resolves; the recorder is made and started
Granted(k) ==
    /\ phase[k] = "asking"
    /\ phase' = [phase EXCEPT ![k] = "started"]
    /\ recStarts' = Append(recStarts, k)
    /\ rec' = k
    /\ UNCHANGED <<audioVariant, hasPrompt, audioStatus, audioResult,
                   attemptUsed, scoreReqs, clicks>>
    /\ UNCHANGED <<uploadVars, aggVars, subsVars, dashVars, formVars>>

\* page.js:602-605: getUserMedia rejects; part_004:21 has no catch
Denied(k) ==
    /\ phase[k] = "asking"
    /\ phase' = [phase EXCEPT ![k] = "denied"]
    /\ audioResult' = IF audioVariant = "part_004" THEN audioResult ELSE "error"
    /\ UNCHANGED <<audioVariant, hasPrompt, audioStatus, attemptUsed, rec,
                   recStarts, scoreReqs, clicks>>
    /\ UNCHANGED <<uploadVars, aggVars, subsVars, dashVars, formVars>>

\* page.js:560-565: mr.onstart
OnStart(k) ==
    /\ phase[k] \in {"started", "stoppedEarly"}
    /\ phase' = [phase EXCEPT ![k] = IF phase[k] = "started" THEN "live" ELSE "stopped"]
    /\ audioStatus' = "recording"
    /\ attemptUsed' = IF audioVariant = "page" THEN TRUE ELSE attemptUsed
    /\ UNCHANGED <<audioVariant, hasPrompt, audioResult, rec, recStarts,
                   scoreReqs, clicks>>
    /\ UNCHANGED <<uploadVars, aggVars, subsVars, dashVars, formVars>>

\* page.js:608-611 and 710-712: the Stop button is shown and clicked
StopClick ==
    /\ audioStatus = "recording"
    /\ rec # 0
    /\ phase' = [phase EXCEPT ![rec] = IF phase[rec] = "started" THEN "stoppedEarly"
                                        ELSE "stopped"]
    /\ rec' = 0
    /\ UNCHANGED <<audioVariant, hasPrompt, audioStatus, audioResult,
                   attemptUsed, recStarts, scoreReqs, clicks>>
    /\ UNCHANGED <<uploadVars, aggVars, subsVars, dashVars, formVars>>

\* page.js:567-591: mr.onstop up to the fetch of /score; part_004:30-39 has
\* no check of prompt_id
OnStop(k) ==
    /\ phase[k] = "stopped"
    /\ IF audioVariant # "part_004" /\ ~hasPrompt
       THEN /\ audioResult' = "error"
            /\ audioStatus' = "idle"
            /\ phase' = [phase EXCEPT ![k] = "done"]
            /\ UNCHANGED scoreReqs
       ELSE /\ audioStatus' = "processing"
            /\ scoreReqs' = Append(scoreReqs, k)
            /\ phase' = [phase EXCEPT ![k] = "scoring"]
            /\ UNCHANGED audioResult
    /\ UNCHANGED <<audioVariant, hasPrompt, attemptUsed, rec, recStarts, clicks>>
    /\ UNCHANGED <<uploadVars, aggVars, subsVars, dashVars, formVars>>

\* page.js:585-598: the score request is answered 2xx with a JSON body
ScoreOk(k) ==
    /\ phase[k] = "scoring"
    /\ audioResult' = "data"
    /\ audioStatus' = "idle"
    /\ phase' = [phase EXCEPT ![k] = "done"]
    /\ UNCHANGED <<audioVariant, hasPrompt, attemptUsed, rec, recStarts,
                   scoreReqs, clicks>>
    /\ UNCHANGED <<uploadVars, aggVars, subsVars, dashVars, formVars>>

\* page.js:585-598: fetch rejects or the body is not JSON ("rejected"), or
\* the answer is not 2xx and has a JSON body ("status"); part_004:40-43
\* has no try and no check of resp.ok
ScoreFails(k) ==
    /\ phase[k] = "scoring"
    /\ \E kind \in {"rejected", "status"} :
         IF audioVariant # "part_004"
         THEN /\ audioResult' = "error"
              /\ audioStatus' = "idle"
              /\ phase' = [phase EXCEPT ![k] = "done"]
         ELSE IF kind = "status"
         THEN /\ audioResult' = "data"
              /\ audioStatus' = "idle"
              /\ phase' = [phase EXCEPT ![k] = "done"]
         ELSE /\ phase' = [phase EXCEPT ![k] = "crashed"]
              /\ UNCHANGED <<audioResult, audioStatus>>
    /\ UNCHANGED <<audioVariant, hasPrompt, attemptUsed, rec, recStarts,
                   scoreReqs, clicks>>
    /\ UNCHANGED <<uploadVars, aggVars, subsVars, dashVars, formVars>>

ClientIdle == FormIdle /\ AudioIdle

(***************************************************************************)
(* Specifications                                                          *)
(***************************************************************************)
AggIdle ==
    /\ subStore = <<>>
    /\ summary = NoSummary
    /\ summaryAt = 0
    /\ legacy = <<>>

\* the upload pipeline: NumReqs concurrent requests
Init == UploadInit /\ AggIdle /\ SubsIdle /\ DashIdle /\ ClientIdle

Next ==
    \/ \E r \in Reqs : Validate(r)
    \/ \E r \in Reqs : SaveOk(r)
    \/ \E r \in Reqs : SaveFails(r)
    \/ \E r \in Reqs : InvokeScorer(r)
    \/ \E r \in Reqs : ScorerDone(r)
    \/ \E r \in Reqs : AppendOk(r)
    \/ \E r \in Reqs : AppendFails(r)
    \/ Tick

Spec == Init /\ [][Next]_vars

\* the aggregation over every store and every log within the bounds
AggInit ==
    /\ pc = [r \in Reqs |-> "idle"]
    /\ input = [r \in Reqs |-> NoFile]
    /\ unique = [r \in Reqs |-> NoName]
    /\ scorerOut = [r \in Reqs |-> NoResult]
    /\ resp = [r \in Reqs |-> NoResp]
    /\ uploadDir = {}
    /\ written = <<>>
    /\ invoked = <<>>
    /\ loggedBy = <<>>
    /\ clock = 0
    /\ scoresTxt \in BoundedSeq(AggLines, MaxLines)
    /\ subStore \in BoundedSeq(AggSubs, MaxStore)
    /\ summary = NoSummary
    /\ summaryAt = 0
    /\ legacy = <<>>
    /\ SubsIdle
    /\ DashIdle
    /\ ClientIdle

AggNext == ScoresGET

SpecAgg == AggInit /\ [][AggNext]_vars

\* the Score Log under uploads and summary requests: every request has
\* stored its file, a.pdf, at time 0 and is about to start the scorer
StoredName(r) == UniqueName(File_a_pdf, 0, ((r - 1) % NumRand) + 1)

LogInit ==
    /\ pc = [r \in Reqs |-> "invoke"]
    /\ input = [r \in Reqs |-> File_a_pdf]
    /\ unique = [r \in Reqs |-> StoredName(r)]
    /\ scorerOut = [r \in Reqs |-> NoResult]
    /\ resp = [r \in Reqs |-> NoResp]
    /\ uploadDir = {StoredName(r) : r \in Reqs}
    /\ written = [r \in Reqs |-> [req |-> r, name |-> StoredName(r)]]
    /\ invoked = <<>>
    /\ scoresTxt = <<>>
    /\ loggedBy = <<>>
    /\ clock = 0
    /\ AggIdle
    /\ SubsIdle
    /\ DashIdle
    /\ ClientIdle

LogNext ==
    \/ \E r \in Reqs : InvokeScorer(r)
    \/ \E r \in Reqs : ScorerDone(r)
    \/ \E r \in Reqs : AppendOk(r)
    \/ \E r \in Reqs : AppendFails(r)
    \/ Tick
    \/ ScoresGET

SpecLog == LogInit /\ [][LogNext]_vars

\* the dashboard under the arrival of the data and the user's interactions
DashNext ==
    \/ Fetched
    \/ SearchEdit
    \/ SortScoreClick
    \/ SortDateClick
    \/ PreviousClick
    \/ NextClick

SpecDash == Init /\ [][DashNext]_vars

\* the Submission Store under requests to /api/submissions and /api/scores
StoreNext ==
    \/ SubmissionsPOST
    \/ SubmissionsGET
    \/ ScoresGET

SpecStore == Init /\ [][StoreNext]_vars

\* the upload form: either version of the page, with the override path
\* unset or set to "score", which the list holds as /score
FormSettings ==
    {<<"page", Path_none>>, <<"page", Path_score>>, <<"part_000", Path_none>>}

FormInit ==
    /\ UploadInit /\ AggIdle /\ SubsIdle /\ DashIdle /\ AudioIdle
    /\ \E v \in FormSettings : FormIdleAs(v[1], v[2])

FormNext ==
    \/ ChooseFile
    \/ SubmitNoFile
    \/ SubmitStart
    \/ Response
    \/ NetworkError
    \/ Packaged

\* the network requests terminate: every fetch is answered or rejected
FormFairness == WF_vars(Response \/ NetworkError) /\ WF_vars(Packaged)

SpecForm == FormInit /\ [][FormNext]_vars /\ FormFairness

\* the audio test: any version of the component, the test with or without
\* a prompt_id
AudioInit ==
    /\ UploadInit /\ AggIdle /\ SubsIdle /\ DashIdle /\ FormIdle
    /\ \E variant \in AudioVariants, prompt \in BOOLEAN : AudioIdleAs(variant, prompt)

AudioNext ==
    \/ StartClick
    \/ \E k \in Recs : Granted(k)
    \/ \E k \in Recs : Denied(k)
    \/ \E k \in Recs : OnStart(k)
    \/ StopClick
    \/ \E k \in Recs : OnStop(k)
    \/ \E k \in Recs : ScoreOk(k)
    \/ \E k \in Recs : ScoreFails(k)

\* the browser settles getUserMedia, delivers the start and stop events of
\* a recorder, and the score request terminates
AudioFairness ==
    \A k \in Recs :
        /\ WF_vars(Granted(k) \/ Denied(k))
        /\ WF_vars(OnStart(k))
        /\ WF_vars(OnStop(k))
        /\ WF_vars(ScoreOk(k) \/ ScoreFails(k))

SpecAudio == AudioInit /\ [][AudioNext]_vars /\ AudioFairness

(***************************************************************************)
(* Properties of POST /api/upload, under Spec                              *)
(***************************************************************************)
\* the number of files request r wrote, of scorer runs it started, of lines
\* it appended
WritesBy(r) == Cardinality({i \in 1..Len(written) : written[i].req = r})
InvokesBy(r) == Cardinality({i \in 1..Len(invoked) : invoked[i] = r})
LinesBy(r) == Cardinality({i \in 1..Len(loggedBy) : loggedBy[i] = r})
LineOf(r) == scoresTxt[CHOOSE i \in 1..Len(loggedBy) : loggedBy[i] = r]

Received(r) == pc[r] # "idle"

ExtAllowed(file) ==
    ExtOf(file) \in {<<".", "p", "d", "f">>, <<".", "d", "o", "c">>,
                     <<".", "d", "o", "c", "x">>}

MimeAllowed(file) ==
    file.type \in
        {"application/pdf", "application/msword",
         "application/vnd.openxmlformats-officedocument.wordprocessingml.document"}

TwentyMB == 20 * 1024 * 1024

IsErrorResp(r) == resp[r].status >= 400 /\ ~resp[r].ok

\* C1: a request whose file is missing, or whose extension and MIME type are
\* both outside the allow-lists, or whose size exceeds 20 MB, is answered
\* with an error, and has written no file, started no scorer and appended no
\* log line.
C1_RejectedNoEffects ==
    \A r \in Reqs :
        ( /\ Received(r)
          /\ \/ ~input[r].present
             \/ (~ExtAllowed(input[r]) /\ ~MimeAllowed(input[r]))
             \/ input[r].size > TwentyMB )
        => /\ pc[r] = "done"
           /\ IsErrorResp(r)
           /\ WritesBy(r) = 0
           /\ InvokesBy(r) = 0
           /\ LinesBy(r) = 0

\* an oversized PDF was rejected while the other request stored a file
C1_Witness ==
    \E r \in Reqs, q \in Reqs :
        /\ pc[r] = "done" /\ input[r].present /\ ExtAllowed(input[r])
        /\ input[r].size > TwentyMB /\ resp[r].status = 413
        /\ WritesBy(q) = 1

\* validation let the request through: it was not answered 400 or 413
PassedValidation(r) ==
    Received(r) /\ ~(pc[r] = "done" /\ resp[r].status \in {400, 413})

\* C2: an upload that carries a file passes validation exactly when its
\* extension or its MIME type is allowed and its size is at most 20 MB.
C2_ValidationIff ==
    \A r \in Reqs :
        (Received(r) /\ input[r].present)
        => ( PassedValidation(r)
             <=> /\ ExtAllowed(input[r]) \/ MimeAllowed(input[r])
                 /\ input[r].size <= TwentyMB )

\* a file of exactly 20 MB with an allowed extension and a disallowed MIME
\* type passed, and one with the reverse and 20 MB + 1 byte was rejected
C2_Witness ==
    \E r \in Reqs, q \in Reqs :
        /\ PassedValidation(r) /\ input[r].present
        /\ ExtAllowed(input[r]) /\ ~MimeAllowed(input[r]) /\ input[r].size = TwentyMB
        /\ Received(q) /\ ~PassedValidation(q) /\ input[q].present
        /\ ~ExtAllowed(input[q]) /\ MimeAllowed(input[q]) /\ input[q].size = TwentyMB + 1

\* C3: every upload that got past the file write wrote exactly one file, and
\* no two files ever written have the same name.
C3_UniqueNames ==
    /\ \A r \in Reqs : pc[r] \in {"invoke", "await", "append"} => WritesBy(r) = 1
    /\ \A i \in 1..Len(written), j \in 1..Len(written) :
           i # j => written[i].name # written[j].name

\* the scorer run of r failed, gave an unparseable last line, or gave no
\* final_score
ScorerFailed(r) ==
    \/ scorerOut[r].exit = "fail"
    \/ scorerOut[r].last = "garbage"
    \/ scorerOut[r].final_score.t = "undef"

ScorerEnded(r) == scorerOut[r].exit # "none"

\* C4 as claimed: after a failed scorer run the request is answered ok:true
\* with score null, its file is stored and the log holds one record of it,
\* with score null.
C4_AlwaysOk ==
    \A r \in Reqs :
        (pc[r] = "done" /\ ScorerEnded(r) /\ ScorerFailed(r))
        => /\ resp[r].ok /\ resp[r].score = Null
           /\ unique[r] \in uploadDir
           /\ LinesBy(r) = 1
           /\ LineOf(r).file = unique[r] /\ LineOf(r).score = Null

\* C4 as amended: after a failed scorer run the file stays stored, and either
\* the log append succeeded, the request is answered ok:true with score null
\* and the log holds one record of it with score null, or the append threw,
\* the request is answered 500 and the log holds no record of it.
C4_OkUnlessAppendFails ==
    \A r \in Reqs :
        (pc[r] = "done" /\ ScorerEnded(r) /\ ScorerFailed(r))
        => /\ unique[r] \in uploadDir
           /\ \/ /\ resp[r].ok /\ resp[r].status = 200 /\ resp[r].score = Null
                 /\ LinesBy(r) = 1
                 /\ LineOf(r).file = unique[r] /\ LineOf(r).score = Null
              \/ /\ resp[r].status = 500 /\ ~resp[r].ok
                 /\ LinesBy(r) = 0

\* a request whose scorer exited non-zero was answered ok:true
C4_Witness ==
    \E r \in Reqs :
        /\ pc[r] = "done" /\ scorerOut[r].exit = "fail"
        /\ resp[r].ok /\ LinesBy(r) = 1

\* C5: every request answered ok:true has appended exactly one record, whose
\* file and score are the filename and score of its response; when all
\* requests have finished the log has as many records as there are ok:true
\* responses.
C5_OneRecordPerOk ==
    /\ \A r \in Reqs :
           resp[r].ok
           => /\ LinesBy(r) = 1
              /\ LineOf(r).file = resp[r].filename
              /\ LineOf(r).score = resp[r].score
    /\ (\A r \in Reqs : pc[r] = "done")
       => Len(scoresTxt) = Cardinality({r \in Reqs : resp[r].ok})

\* two requests whose handlers overlapped were both answered ok:true, one of
\* them without a score
C5_Witness ==
    /\ \A r \in Reqs : pc[r] = "done" /\ resp[r].ok
    /\ \E r \in Reqs : resp[r].score = Null
    /\ \E r \in Reqs : resp[r].score # Null
    /\ Len(written) = 2 /\ written[1].req = loggedBy[2]

\* C6: a request that passed validation and whose file write failed is
\* answered 500, never ok:true, starts no scorer and appends no record.
C6_WriteFailure ==
    \A r \in Reqs :
        (PassedValidation(r) /\ pc[r] # "save" /\ WritesBy(r) = 0)
        => /\ pc[r] = "done"
           /\ resp[r].status = 500 /\ ~resp[r].ok
           /\ InvokesBy(r) = 0
           /\ LinesBy(r) = 0

\* the file write of one request failed while the other request went on
C6_Witness ==
    \E r \in Reqs, q \in Reqs :
        /\ PassedValidation(r) /\ pc[r] = "done" /\ WritesBy(r) = 0
        /\ resp[r].status = 500
        /\ WritesBy(q) = 1 /\ InvokesBy(q) = 1

(***************************************************************************)
(* Properties of GET /api/scores, under SpecAgg                            *)
(***************************************************************************)
Computed == summary # NoSummary

RECURSIVE TotalScore(_)
TotalScore(items) ==
    IF items = <<>> THEN 0 ELSE items[1].score + TotalScore(Tail(items))

\* C7: averageScore is the mean of the scores of the items rounded to two
\* decimals, halves rounding up (in hundredths: the integer a with
\* a - 1/2 <= sum/count < a + 1/2), and 0 when there are no items.
C7_AverageRounded ==
    Computed
    => LET n == Len(summary.items)
           sum == TotalScore(summary.items)
           a == summary.averageScore
       IN  IF n = 0 THEN a = 0
           ELSE 2 * n * a <= 2 * sum + n /\ 2 * sum + n < 2 * n * (a + 1)

\* de-duplication removed an entry and the mean of the rest lies exactly
\* between two hundredths
C7_Witness ==
    /\ Computed
    /\ Len(summary.items) >= 2
    /\ Len(summary.items) < Len(subStore) + Len(scoresTxt)
    /\ (2 * TotalScore(summary.items)) % (2 * Len(summary.items)) = Len(summary.items)

StrField(obj, key) == IF key \in DOMAIN obj THEN obj[key] ELSE <<>>

\* lowercase(email or name or filename) of a submission and of a log entry
C8_SubWho(sub) == toLowerCase(FirstTruthy(<<sub.email, sub.name, sub.fileName>>))

C8_RowWho(row) ==
    toLowerCase(FirstTruthy(<<StrField(row, "email"), StrField(row, "name"),
                              StrField(row, "fileName"), StrField(row, "file")>>))

\* the timestamp a log entry carries
C8_RowTime(row) ==
    IF "date" \in DOMAIN row THEN row.date
    ELSE IF "submittedAt" \in DOMAIN row THEN row.submittedAt
    ELSE row.ts

\* C8: for a submission and a log entry with the same lowercase (email or
\* name or filename) and timestamps within the same minute, the items hold
\* exactly one entry for that key, the submission's, and none made from the
\* log entry.
C8_SubmissionWins ==
    Computed
    => \A i \in 1..Len(subStore), j \in 1..Len(scoresTxt) :
           LET sub == subStore[i]
               row == scoresTxt[j]
               its == summary.items
           IN  ( /\ "bad" \notin DOMAIN row
                 /\ C8_SubWho(sub) = C8_RowWho(row)
                 /\ sub.submittedAt \div 60000 = C8_RowTime(row) \div 60000 )
               => /\ \A k \in 1..Len(its) :
                         ~(its[k].source = "legacy" /\ its[k].scoring = row)
                  /\ Cardinality({k \in 1..Len(its) :
                         /\ C8_SubWho(its[k]) = C8_SubWho(sub)
                         /\ its[k].date \div 60000 = sub.submittedAt \div 60000
                         /\ its[k].source = "packaged"}) = 1

RECURSIVE C9_FirstNumber(_, _)
\* the first of the fields keys of obj that holds a number, 0 when none does
C9_FirstNumber(obj, keys) ==
    IF keys = <<>> THEN 0
    ELSE IF Head(keys) \in DOMAIN obj /\ obj[Head(keys)].t = "num"
         THEN obj[Head(keys)].v
         ELSE C9_FirstNumber(obj, Tail(keys))

\* C9: the score of every item is the first of the fields score, overall,
\* final, total of its scorer payload that holds a finite number, and 0
\* when none of them does.
C9_FirstFiniteField ==
    Computed
    => \A k \in 1..Len(summary.items) :
           summary.items[k].score =
               C9_FirstNumber(summary.items[k].scoring,
                              <<"score", "overall", "final", "total">>)

PairCount(seq, p) ==
    Cardinality({i \in 1..Len(seq) : seq[i].name = p.name /\ seq[i].score = p.score})

\* C10: top5 has min(5, number of items) entries, in descending order of
\* score, each of them an item's name and score, and every item it leaves
\* out has a score at most the lowest score in it.
C10_Top5 ==
    Computed
    => LET t == summary.top5
           its == summary.items
       IN  /\ Len(t) = IF Len(its) < 5 THEN Len(its) ELSE 5
           /\ \A i \in 1..(Len(t) - 1) : t[i].score >= t[i + 1].score
           /\ \A i \in 1..Len(t) : PairCount(t, t[i]) <= PairCount(its, t[i])
           /\ \A k \in 1..Len(its) :
                  PairCount(t, its[k]) < PairCount(its, its[k])
                  => Len(t) > 0 /\ its[k].score <= t[Len(t)].score

\* six items, of which top5 leaves one out
C10_Witness ==
    /\ Computed
    /\ Len(summary.items) = 6
    /\ Len(summary.top5) = 5
    /\ summary.top5[1].score > summary.top5[5].score

\* C11: a later GET /api/scores over the same Submission Store and the same
\* Score Log returns the summary the earlier one returned: the same totalCVs,
\* averageScore, items and top5, whatever the time of the request.
C11_PureSummary ==
    [][ (Computed /\ subStore' = subStore /\ scoresTxt' = scoresTxt)
        => /\ summary'.totalCVs = summary.totalCVs
           /\ summary'.averageScore = summary.averageScore
           /\ summary'.items = summary.items
           /\ summary'.top5 = summary.top5 ]_vars

\* the lines of a log that are JSON, in the order of the log
WellFormed(lines) == SelectSeq(lines, LAMBDA l : "bad" \notin DOMAIN l)

\* C12: a GET /api/scores over a log with malformed lines answers, and the
\* log rows it merges are the well-formed lines of the log, one row for each
\* in the order of the log; each of them is among the items of the summary,
\* itself or through an item with its de-duplication key.
C12_SkipsOnlyMalformed ==
    Computed
    => LET good == WellFormed(scoresTxt)
       IN  /\ Len(legacy) = Len(good)
           /\ \A i \in 1..Len(good) :
                  /\ legacy[i].source = "legacy"
                  /\ legacy[i].scoring = good[i]
                  /\ \/ \E k \in 1..Len(summary.items) : summary.items[k] = legacy[i]
                     \/ \E k \in 1..Len(summary.items) :
                            keyOf(summary.items[k]) = keyOf(legacy[i])
           /\ summary.totalCVs = Len(summary.items)

\* a malformed line between two well-formed ones: two rows were merged
C12_Witness ==
    /\ Computed
    /\ Len(scoresTxt) = 3
    /\ "bad" \in DOMAIN scoresTxt[2]
    /\ scoresTxt[1] = Line_scored /\ scoresTxt[3] = Line_dated
    /\ Len(legacy) = 2
    /\ legacy[1].scoring = Line_scored /\ legacy[2].scoring = Line_dated

(***************************************************************************)
(* Properties of the Submission Store, under SpecStore                     *)
(***************************************************************************)
\* s is a prefix of t
IsPrefix(s, t) == Len(s) <= Len(t) /\ \A i \in 1..Len(s) : s[i] = t[i]

\* the request body carries an id
BodyHasId(body) == "id" \in DOMAIN body /\ body.id # ""

\* C13: a POST /api/submissions whose body has no id is answered success:false
\* with a 4xx status and leaves the store as it was; a POST whose body has an
\* id is answered success:true and appends exactly one submission, with that
\* id, to the store.
C13_PostValidates ==
    [][ SubmissionsPOST
        => IF BodyHasId(subBody')
           THEN /\ subResp'.success
                /\ Len(subStore') = Len(subStore) + 1
                /\ IsPrefix(subStore, subStore')
                /\ subStore'[Len(subStore')].id = subBody'.id
           ELSE /\ ~subResp'.success
                /\ subResp'.status \in 400..499
                /\ subStore' = subStore ]_vars

\* C14: the data of a GET /api/submissions holds every stored submission
\* exactly once, the latest added first: its i-th entry is the i-th
\* submission from the end of the store.
C14_ListMostRecentFirst ==
    subResp.method = "GET"
    => /\ subResp.success
       /\ Len(subResp.data) = Len(subStore)
       /\ \A i \in 1..Len(subStore) :
              subResp.data[i] = subStore[Len(subStore) + 1 - i]

\* three submissions were added, the second with a submittedAt before that of
\* the first, and then listed
C14_Witness ==
    /\ subResp.method = "GET"
    /\ Len(subStore) = 3
    /\ subStore[1].id = "s2" /\ subStore[2].id = "s1" /\ subStore[3].id = "s2"
    /\ subStore[2].submittedAt < subStore[1].submittedAt
    /\ subResp.data[1] = subStore[3] /\ subResp.data[3] = subStore[1]

\* C15: no two submissions in the store have the same id.
C15_UniqueIds ==
    \A i \in 1..Len(subStore), j \in 1..Len(subStore) :
        i # j => subStore[i].id # subStore[j].id

\* C16: every step leaves the submissions already stored in place and
\* unchanged (the store before the step is a prefix of the store after it),
\* and a GET /api/submissions or a GET /api/scores leaves the whole store as
\* it was.
C16_StoreAppendOnly ==
    [][ /\ IsPrefix(subStore, subStore')
        /\ (SubmissionsGET \/ ScoresGET) => subStore' = subStore ]_vars

\* a store of two submissions that has been listed and summarized, and then
\* grew by a third
C16_Witness ==
    /\ Len(subStore) = 3
    /\ subResp.method = "POST" /\ subResp.success
    /\ Computed /\ summary.totalCVs = 2
    /\ \E k \in 1..2 : summary.items[k].scoring = subStore[1].scoring

(***************************************************************************)
(* Properties of the Score Log, under SpecLog                              *)
(***************************************************************************)
\* C17: every step of an upload or of a summary request leaves the lines
\* already in the Score Log in place (the log before the step is a prefix of
\* the log after it, hence of the log at every later moment), and a
\* GET /api/scores leaves the whole log as it was.
C17_LogAppendOnly ==
    [][ /\ IsPrefix(scoresTxt, scoresTxt')
        /\ ScoresGET => scoresTxt' = scoresTxt ]_vars

\* a summary was taken of a log of one line, and the log then got a second
\* line from the other upload
C17_Witness ==
    /\ Len(scoresTxt) = 2
    /\ loggedBy[1] # loggedBy[2]
    /\ Computed
    /\ Len(legacy) = 1
    /\ legacy[1].scoring = scoresTxt[1]

(***************************************************************************)
(* Properties of the dashboard, under SpecDash                             *)
(***************************************************************************)
CasePairs == {<<"A", "a">>, <<"B", "b">>, <<"N", "n">>, <<"O", "o">>}

\* the same letter, in whatever case
SameLetter(a, b) == a = b \/ <<a, b>> \in CasePairs \/ <<b, a>> \in CasePairs

\* s occurs in name, case ignored
ContainsIgnoringCase(name, s) ==
    \E off \in 0..(Len(name) - Len(s)) :
        \A k \in 1..Len(s) : SameLetter(name[off + k], s[k])

\* the name of an item, empty for an item without one
DisplayName(cv) == IF "name" \in DOMAIN cv THEN cv.name ELSE <<>>

\* the elements of a sequence
Range(seq) == {seq[i] : i \in 1..Len(seq)}

\* C18: the filtered list holds exactly the fetched items whose name (the
\* empty name for an item without one) contains the search string, case
\* ignored: each of them once, and no other item.
C18_FilterByName ==
    LET its == itemsOf(data)
        hits == {i \in 1..Len(its) : ContainsIgnoringCase(DisplayName(its[i]), search)}
    IN  /\ Range(FilteredNow) = {its[i] : i \in hits}
        /\ Len(FilteredNow) = Cardinality(hits)

\* the search AN over the long list: Ann, BAN and anna are in, bo and the
\* items without a name are out
C18_Witness ==
    /\ Len(itemsOf(data)) = NumItems
    /\ search = <<"A", "N">>
    /\ \E k \in 1..Len(FilteredNow) : FilteredNow[k].name = <<"A", "n", "n">>
    /\ \E k \in 1..Len(FilteredNow) : FilteredNow[k].name = <<"a", "n", "n", "a">>
    /\ \E i \in 1..NumItems : /\ "name" \notin DOMAIN data[i]
                              /\ data[i] \notin Range(FilteredNow)
    /\ \E i \in 1..NumItems : /\ DisplayName(data[i]) = <<"b", "o">>
                              /\ data[i] \notin Range(FilteredNow)

\* the list the dashboard shows when sorted by score in direction dir
ByScore(dir) == filteredCVs(itemsOf(data), search, "score", dir)

\* the place of an item in the fetched items
FetchedAt(cv) == CHOOSE i \in 1..Len(itemsOf(data)) : itemsOf(data)[i] = cv

\* C19 as claimed: the list sorted by score ascending is the list sorted by
\* score descending read backwards.
C19_MirrorImage == ByScore("asc") = Reverse(ByScore("desc"))

\* C19 as amended: the two lists hold the same items; scores never fall along
\* the ascending list and never rise along the descending one; items of equal
\* score are in the order they were fetched in, in both lists; so the lists
\* are mirror images when no two filtered items have the same score.
C19_MirrorUpToTies ==
    LET asc == ByScore("asc")
        desc == ByScore("desc")
        n == Len(asc)
    IN  /\ Len(desc) = n
        /\ Range(asc) = Range(desc)
        /\ \A i \in 1..n, j \in 1..n :
               i < j => /\ asc[i].score <= asc[j].score
                        /\ desc[i].score >= desc[j].score
                        /\ asc[i].score = asc[j].score
                               => FetchedAt(asc[i]) < FetchedAt(asc[j])
                        /\ desc[i].score = desc[j].score
                               => FetchedAt(desc[i]) < FetchedAt(desc[j])
        /\ (\A i \in 1..n, j \in 1..n : i # j => asc[i].score # asc[j].score)
               => asc = Reverse(desc)

\* the Score button was clicked twice over a filtered list in which two items
\* have the same score: the descending list shown is not the ascending one
\* read backwards
C19_Witness ==
    /\ sortBy = "score" /\ sortDir = "desc"
    /\ search = <<"n", "n">>
    /\ Len(FilteredNow) > 2
    /\ FilteredNow = ByScore("desc")
    /\ \E i \in 1..Len(FilteredNow), j \in 1..Len(FilteredNow) :
           i # j /\ FilteredNow[i].score = FilteredNow[j].score
    /\ FilteredNow # Reverse(ByScore("asc"))

\* C20: the page number is at least 1 and at most totalPages, the least
\* number of pages of 25, and at least 1, that hold the filtered items; the
\* page shown has at most 25 items; and the pages 1..totalPages, one after
\* the other, are the filtered list: every filtered item once.
C20_PageInRange ==
    LET f == FilteredNow
        n == Len(f)
        pages == CHOOSE t \in 1..(n + 1) :
                     /\ t * 25 >= n
                     /\ t = 1 \/ (t - 1) * 25 < n
        shown(p) == Slice(f, (p - 1) * itemsPerPage, p * itemsPerPage)
    IN  /\ TotalPagesNow = pages
        /\ 1 <= page /\ page <= pages
        /\ Len(shown(page)) <= 25
        /\ \A k \in 1..n : shown(((k - 1) \div 25) + 1)[((k - 1) % 25) + 1] = f[k]
        /\ \A p \in 1..pages :
               Len(shown(p)) = IF p * 25 <= n THEN 25 ELSE n - (p - 1) * 25

\* the last of three pages, reached by Next, with the two items left for it
C20_Witness ==
    /\ Len(FilteredNow) = NumItems
    /\ TotalPagesNow = 3
    /\ page = 3
    /\ sortBy = "date"
    /\ Len(currentItemsOf(page)) = NumItems - 50
    /\ currentItemsOf(page)[1] = FilteredNow[51]

(***************************************************************************)
(* C22: the order of the steps of one upload request                       *)
(***************************************************************************)
\* C22 as claimed: a request that has been answered has had its scorer run
\* completed and its record appended to the log.
C22_ResponseAfterLog ==
    \A r \in Reqs :
        resp[r] # NoResp => (ScorerEnded(r) /\ LinesBy(r) = 1)

\* the steps of route.ts:20-102 in the order of the code, with the early
\* returns of lines 25-35 and the catch of lines 100-102
StepOrder ==
    {<<"idle", "save">>, <<"idle", "done">>, <<"save", "invoke">>,
     <<"save", "done">>, <<"invoke", "await">>, <<"await", "append">>,
     <<"append", "done">>}

\* what request r has done when it stands at its position
StepsDone(r) ==
    /\ (resp[r] # NoResp) <=> (pc[r] = "done")
    /\ pc[r] \in {"idle", "save"}
         => (WritesBy(r) = 0 /\ InvokesBy(r) = 0 /\ ~ScorerEnded(r) /\ LinesBy(r) = 0)
    /\ pc[r] = "invoke"
         => (WritesBy(r) = 1 /\ InvokesBy(r) = 0 /\ ~ScorerEnded(r) /\ LinesBy(r) = 0)
    /\ pc[r] = "await"
         => (WritesBy(r) = 1 /\ InvokesBy(r) = 1 /\ ~ScorerEnded(r) /\ LinesBy(r) = 0)
    /\ pc[r] = "append"
         => (WritesBy(r) = 1 /\ InvokesBy(r) = 1 /\ ScorerEnded(r) /\ LinesBy(r) = 0)
    /\ (pc[r] = "done" /\ resp[r].ok)
         => (WritesBy(r) = 1 /\ InvokesBy(r) = 1 /\ ScorerEnded(r) /\ LinesBy(r) = 1)
    /\ (pc[r] = "done" /\ ~resp[r].ok)
         => (resp[r].status \in {400, 413, 500} /\ LinesBy(r) = 0)

\* C22 as amended: a request moves only along validation, file write, scorer
\* invocation, scorer completion, log append, response, or from validation,
\* the file write or the log append straight to an error response; it is
\* answered once, as its last step; an ok:true response is sent only after
\* the file was written, the scorer invoked and ended, and the record
\* appended, each once; an error response leaves no record in the log.
C22_FixedOrder ==
    [][\A r \in Reqs :
         /\ pc'[r] # pc[r] => <<pc[r], pc'[r]>> \in StepOrder
         /\ resp'[r] # resp[r] => (pc[r] # "done" /\ pc'[r] = "done")
         /\ StepsDone(r)']_vars

\* one request was answered ok:true after all its steps, another was
\* answered with an error before its scorer was ever invoked
C22_Witness ==
    \E r, q \in Reqs :
        /\ pc[r] = "done" /\ resp[r].ok /\ ScorerEnded(r) /\ LinesBy(r) = 1
        /\ pc[q] = "done" /\ ~resp[q].ok /\ InvokesBy(q) = 0

(***************************************************************************)
(* C23: the items of a summary and the de-duplication key                  *)
(***************************************************************************)
\* lowercase(email or name or fileName) and the minute of the date
C23_Key(it) ==
    <<toLowerCase(IF it.email # <<>> THEN it.email
                  ELSE IF it.name # <<>> THEN it.name
                  ELSE it.fileName),
      it.date \div 60000>>

\* the keys of the normalized submissions and log entries of the last GET
C23_InputKeys ==
    {C23_Key(normalizeFromSubmission(subStore[i])) : i \in 1..Len(subStore)}
        \cup {C23_Key(legacy[i]) : i \in 1..Len(legacy)}

\* C23: in every summary no two items have the same de-duplication key, and
\* totalCVs is the number of items, which is the number of distinct keys
\* among the normalized submissions and log entries.
C23_OneItemPerKey ==
    summary # NoSummary
    => /\ \A i, j \in 1..Len(summary.items) :
            i # j => C23_Key(summary.items[i]) # C23_Key(summary.items[j])
       /\ summary.totalCVs = Len(summary.items)
       /\ Len(summary.items) = Cardinality(C23_InputKeys)

\* a summary of several items whose input held more rows than keys
C23_Witness ==
    /\ summary # NoSummary
    /\ Len(summary.items) >= 2
    /\ Len(summary.items) < Len(subStore) + Len(legacy)
    /\ Len(legacy) >= 1
    /\ Len(subStore) >= 1

(***************************************************************************)
(* C25: termination of an upload request                                   *)
(***************************************************************************)
\* the requests after validation: each has read a.pdf from its form and is
\* about to write it
LiveInit ==
    /\ pc = [r \in Reqs |-> "save"]
    /\ input = [r \in Reqs |-> File_a_pdf]
    /\ unique = [r \in Reqs |-> NoName]
    /\ scorerOut = [r \in Reqs |-> NoResult]
    /\ resp = [r \in Reqs |-> NoResp]
    /\ uploadDir = {}
    /\ written = <<>>
    /\ invoked = <<>>
    /\ scoresTxt = <<>>
    /\ loggedBy = <<>>
    /\ clock = 0
    /\ AggIdle
    /\ SubsIdle
    /\ DashIdle
    /\ ClientIdle

LiveNext ==
    \/ \E r \in Reqs : SaveOk(r)
    \/ \E r \in Reqs : SaveFails(r)
    \/ \E r \in Reqs : InvokeScorer(r)
    \/ \E r \in Reqs : ScorerDone(r)
    \/ \E r \in Reqs : AppendOk(r)
    \/ \E r \in Reqs : AppendFails(r)
    \/ Tick

\* the awaited operations terminate: the file write (route.ts:41-45), the
\* start of the scorer and its exit (69), the append (91); the handler is
\* resumed when the promise it awaits settles
LiveFairness ==
    \A r \in Reqs :
        /\ WF_vars(SaveOk(r) \/ SaveFails(r))
        /\ WF_vars(InvokeScorer(r))
        /\ WF_vars(ScorerDone(r))
        /\ WF_vars(AppendOk(r) \/ AppendFails(r))

SpecLive == LiveInit /\ [][LiveNext]_vars /\ LiveFairness

\* C25: a request that passed validation is eventually answered, when the
\* file write, the scorer run and the log append terminate; while the scorer
\* of a request has been started and has not ended, the request has no
\* response, and nothing but the end of the scorer moves the request on.
C25_EventuallyAnswered ==
    /\ \A r \in Reqs : (pc[r] = "save") ~> (pc[r] = "done" /\ resp[r] # NoResp)
    /\ [](\A r \in Reqs : (InvokesBy(r) >= 1 /\ ~ScorerEnded(r)) => resp[r] = NoResp)
    /\ [][\A r \in Reqs : (pc[r] = "await" /\ pc'[r] # "await") => ScorerDone(r)]_vars

\* a request waits for its scorer while another has been answered ok:true
C25_Witness ==
    \E r, q \in Reqs :
        /\ pc[r] = "await" /\ resp[r] = NoResp /\ InvokesBy(r) = 1
        /\ pc[q] = "done" /\ resp[q].ok

(***************************************************************************)
(* Properties of the upload form, under SpecForm                           *)
(***************************************************************************)
\* C21: nothing retries automatically: once an upload request of a submit
\* action has failed (the fetch was rejected or the answer was not 2xx), no
\* further upload request is sent for that submit action, and no upload
\* request has its scorer invoked more than once.
C21_NoAutomaticRetry ==
    /\ \A i \in 1..Len(answers) : answers[i] # "ok" => Len(sent) = i
    /\ \A r \in Reqs : InvokesBy(r) <= 1

\* postCvScore has returned to the handleSubmit call
Returned == formVariant = "page" /\ sent # <<>> /\ fpc # "probe"

\* the candidates that answered with a 2xx status
Answered2xx == {i \in 1..Len(answers) : answers[i] = "ok"}

\* C24: postCvScore tries the candidate URLs in list order, each at most
\* once; it requests no candidate after one that answered 2xx; and it returns
\* ok:true with URL U exactly when U is the first candidate that answered 2xx.
C24_FirstWorking ==
    formVariant = "page"
    => /\ IsPrefix(sent, uniqueUrls)
       /\ \A i, j \in 1..Len(sent) : i # j => sent[i] # sent[j]
       /\ \A i \in Answered2xx : Len(sent) = i
       /\ Returned
            => IF Answered2xx # {}
               THEN ret.ok /\ ret.url = sent[CHOOSE i \in Answered2xx :
                                                \A j \in Answered2xx : i <= j]
               ELSE ~ret.ok

\* the calls that have put a submission somewhere
Creators ==
    Range(localSubs) \cup Range(subPosts) \cup ({packagedSubmission} \ {0})

\* C26: a handleSubmit call adds to local storage, posts to /api/submissions
\* or sets packagedSubmission only on the path where a file was chosen, the
\* upload request succeeded and the response did not carry success:false;
\* packagedSubmission holds nothing until such a call has ended; a call with
\* no file chosen sends no request at all.
C26_OnlyOnSuccess ==
    /\ \A n \in Creators :
         /\ n \in 1..submits
         /\ n = submits
              => /\ formResult.ok
                 /\ formResult.why \notin {"nofile", "upload", "success:false", "thrown"}
                 /\ answers # <<>> /\ answers[Len(answers)] = "ok"
    /\ packagedSubmission # 0 => packagedSubmission \in Range(subPosts)
    /\ formResult.why = "nofile" => (sent = <<>> /\ answers = <<>>)
    /\ (fpc = "idle" /\ submits >= 1 /\ ~formResult.ok) => submits \notin Creators

\* after a call that made a submission, a call whose response carried
\* success:false has ended
C26_Witness ==
    /\ submits = 2 /\ fpc = "idle"
    /\ formResult.why = "success:false"
    /\ packagedSubmission = 1 /\ subPosts = <<1>>

\* C28: submitting is true only while a handleSubmit call is in progress,
\* and, the network requests terminating, every call ends, with submitting
\* false.
C28_SubmittingOnlyInCall ==
    /\ [](submitting => fpc # "idle")
    /\ [][(fpc # "idle" /\ fpc' = "idle") => ~submitting']_vars
    /\ submitting ~> (~submitting /\ fpc = "idle")

\* a second call has ended on the success path, and submitting is false
C28_Witness ==
    /\ submits = 2 /\ fpc = "idle" /\ ~submitting
    /\ packagedSubmission = 2 /\ formResult.ok

(***************************************************************************)
(* Properties of the audio test, under SpecAudio                           *)
(***************************************************************************)
\* C27: in the audio test of page.js at most one recording is ever started
\* and at most one score request is sent, whatever the timing of the clicks
\* and of the callbacks.
C27_OneAttempt ==
    audioVariant = "page" => (Len(recStarts) <= 1 /\ Len(scoreReqs) <= 1)

\* C29: in the audio test of tts/page.js and part_004, whenever a recorder
\* is recording, its start event delivered and stop() not yet called on it,
\* the status is "recording"; so no callback of an earlier recording sets
\* the status to idle while a later recording runs.
C29_RecordingShown ==
    audioVariant \in {"tts", "part_004"}
    => \A k \in Recs : phase[k] = "live" => audioStatus = "recording"

\* C30: the status is always idle, recording or processing, and after stop()
\* was called on a recorder the status eventually is idle with a result set.
C30_BackToIdle ==
    /\ [](audioStatus \in {"idle", "recording", "processing"})
    /\ \A k \in Recs :
         (phase[k] \in {"stopped", "stoppedEarly"})
             ~> (audioStatus = "idle" /\ audioResult # "null")

====
